---------------------------- MODULE Spec2Model ----------------------------
(***************************************************************************)
(* Thrust-curve processing of rocketpy.motors.Motor: construction of a     *)
(* Motor (burn window resolution, reshape, clip, derived quantities) and   *)
(* the static curve transforms reshapeThrustCurve and clipThrust, the      *)
(* Motor variants, the motor file (importEng, exportEng), and              *)
(* rocketpy.sensitivity.SensitivityModel.                                  *)
(*                                                                         *)
(* Floating point numbers are modelled as exact extended rationals n/d in  *)
(* lowest terms with d >= 0: d = 0 stands for the non-finite values        *)
(* (1/0 = inf, -1/0 = -inf, 0/0 = nan) that numpy division produces.       *)
(***************************************************************************)
EXTENDS Integers, Sequences, FiniteSets, TLC

VARIABLES pc, call, motor, model, raised, warned, steps, ret

vars == <<pc, call, motor, model, raised, warned, steps, ret>>

---------------------------------------------------------------------------
(* Bounds of the model.                                                    *)

\* sample times of the input curves are the integers 0..MaxTime
MaxTime == 3
\* the largest sample thrust of the input curves
MaxThrust == 2
\* requested windows reach Margin beyond the sample times on either side
Margin == 1

---------------------------------------------------------------------------
(* Float arithmetic.                                                       *)

Abs(x) == IF x < 0 THEN -x ELSE x

RECURSIVE GCD(_, _)
GCD(a, b) == IF b = 0 THEN a ELSE GCD(b, a % b)

\* n/d in lowest terms, d >= 0
Norm(n, d) ==
    LET s == IF d < 0 THEN -1 ELSE 1
        g == GCD(Abs(n), Abs(d))
    IN  IF g = 0 THEN [n |-> 0, d |-> 0]
        ELSE [n |-> (s * n) \div g, d |-> (s * d) \div g]

R(i) == [n |-> i, d |-> 1]
Zero == R(0)
NaN == [n |-> 0, d |-> 0]
IsNaN(a) == a.n = 0 /\ a.d = 0
IsFinite(a) == a.d # 0

\* the greatest common divisor of x and y, 1 when both are 0; operands are
\* reduced by it before they are multiplied
Common(x, y) == IF GCD(Abs(x), Abs(y)) = 0 THEN 1 ELSE GCD(Abs(x), Abs(y))

Neg(a) == [n |-> -a.n, d |-> a.d]
Add(a, b) ==
    IF a.d = 0 /\ b.d = 0
    THEN (IF a.n = b.n THEN a ELSE NaN)
    ELSE LET g == Common(a.d, b.d)
         IN  Norm(a.n * (b.d \div g) + b.n * (a.d \div g), (a.d \div g) * b.d)
Sub(a, b) == Add(a, Neg(b))
Mul(a, b) ==
    LET g == Common(a.n, b.d)
        h == Common(b.n, a.d)
    IN  Norm((a.n \div g) * (b.n \div h), (a.d \div h) * (b.d \div g))
Div(a, b) ==
    Mul(a, IF b.n < 0 THEN [n |-> -b.d, d |-> -b.n] ELSE [n |-> b.d, d |-> b.n])

\* comparisons; every comparison with nan is false
Lt(a, b) ==
    /\ ~IsNaN(a)
    /\ ~IsNaN(b)
    /\ IF a.d = 0 /\ b.d = 0 THEN a.n < b.n
       ELSE LET g == Common(a.d, b.d)
            IN  a.n * (b.d \div g) < b.n * (a.d \div g)
FEq(a, b) == ~IsNaN(a) /\ ~IsNaN(b) /\ a = b
Le(a, b) == Lt(a, b) \/ FEq(a, b)

---------------------------------------------------------------------------
(* rocketpy.Function on a discrete source: a sequence of samples           *)
(* <<time, thrust>>, linear interpolation, "zero" extrapolation.           *)

xArray(f) == [i \in DOMAIN f |-> f[i][1]]
yArray(f) == [i \in DOMAIN f |-> f[i][2]]
First(f) == f[1]
Last(f) == f[Len(f)]

\* order of sample times in a sort: nan sorts last
TimeLt(a, b) ==
    IF IsNaN(a) THEN FALSE ELSE IF IsNaN(b) THEN TRUE ELSE Lt(a, b)

\* the element of a singleton set; The({e(x) : x \in {v}}) is e with x
\* bound to the value of v
The(S) == CHOOSE v \in S : TRUE

\* the samples of f in stable ascending order of time
SortedBy(f, rank) ==
    [k \in DOMAIN f |-> f[CHOOSE i \in DOMAIN f : rank[i] = k]] \o << >>

TimeRank(f) ==
    LET before(j, i) == TimeLt(f[j][1], f[i][1])
                        \/ (~TimeLt(f[i][1], f[j][1]) /\ j < i)
    IN  [i \in DOMAIN f |->
            Cardinality({j \in DOMAIN f : before(j, i)}) + 1] \o << >>

SortByTime(source) ==
    The({IF \A i \in 1..(Len(f) - 1) : ~TimeLt(f[i + 1][1], f[i][1])
         THEN f
         ELSE The({SortedBy(f, rank) : rank \in {TimeRank(f)}}) :
         f \in {source \o << >>}})

\* Function(source, ...) for an array source: the ordered sample sequence
Function(source) == SortByTime(source)

\* Function.__call__: the value at x (nan where no sample time compares)
Eval(f, x) ==
    IF Lt(x, First(f)[1]) \/ Lt(Last(f)[1], x) THEN Zero
    ELSE LET above == {i \in DOMAIN f : Le(x, f[i][1])}
             idx == CHOOSE i \in above : \A j \in above : i <= j
         IN  IF above = {} THEN NaN
             ELSE IF idx = 1 \/ f[idx][1] = x THEN f[idx][2]
             ELSE Add(f[idx - 1][2],
                      Div(Mul(Sub(x, f[idx - 1][1]),
                              Sub(f[idx][2], f[idx - 1][2])),
                          Sub(f[idx][1], f[idx - 1][1])))

\* trapezoidal rule over the segments lo..hi of f (segment i joins the
\* samples i and i + 1), summed by halves
RECURSIVE TrapzRange(_, _, _)
TrapzRange(f, lo, hi) ==
    IF hi < lo THEN Zero
    ELSE IF lo = hi
    THEN Div(Mul(Sub(f[lo + 1][1], f[lo][1]), Add(f[lo][2], f[lo + 1][2])), R(2))
    ELSE Add(TrapzRange(f, lo, (lo + hi) \div 2),
             TrapzRange(f, (lo + hi) \div 2 + 1, hi))

\* trapezoidal rule over a sample sequence
Trapz(samples) == The({TrapzRange(f, 1, Len(f) - 1) : f \in {samples}})

\* a variant of Between for mutation analysis: the samples on the bounds
\* are selected too
Between_inclusive(f, a, b) == SelectSeq(f, LAMBDA s : Le(a, s[1]) /\ Le(s[1], b))

\* the samples of f with a < time < b
Between(f, a, b) == SelectSeq(f, LAMBDA s : Lt(a, s[1]) /\ Lt(s[1], b))

\* Function.integral(a, b) for a <= b
IntegralUp(f, a, b) ==
    LET lo == IF Lt(a, First(f)[1]) THEN First(f)[1] ELSE a
        hi == IF Lt(Last(f)[1], b) THEN Last(f)[1] ELSE b
    IN  IF ~Lt(lo, hi) THEN Zero
        ELSE Trapz(<<<<lo, Eval(f, lo)>>>> \o Between(f, lo, hi)
                     \o <<<<hi, Eval(f, hi)>>>>)

\* Function.integral(a, b)
Integral(thrust, a, b) ==
    The({IF Lt(b, a) THEN Neg(IntegralUp(f, b, a)) ELSE IntegralUp(f, a, b) :
            f \in {thrust}})

\* rocketpy.utilities.tuple_handler: v -> (0, v), (v,) -> (0, v), (a, b) -> (a, b)
tuple_handler(value) ==
    IF Len(value) = 1 THEN <<Zero, value[1]>> ELSE value

---------------------------------------------------------------------------
(* Motor.reshapeThrustCurve (static).                                      *)

\* a variant of reshapeTimes for mutation analysis: the origin of the old
\* curve is not subtracted
reshapeTimes_noOrigin(thrust, nbt) ==
    The({[i \in DOMAIN thrust |-> Add(Mul(scale, thrust[i][1]), nbt[1])] \o << >> :
         scale \in {Div(Sub(nbt[2], nbt[1]),
                        Sub(Last(thrust)[1], First(thrust)[1]))}})

\* the sample times of thrust mapped onto the new burn time
reshapeTimes(thrust, nbt) ==
    The({[i \in DOMAIN thrust |->
             \* adjust scale, then adjust origin
             Add(Sub(Mul(scale, thrust[i][1]), Mul(scale, thrust[1][1])), nbt[1])]
            \o << >> :
         scale \in {Div(Sub(nbt[2], nbt[1]),
                        Sub(Last(thrust)[1], First(thrust)[1]))}})

\* a variant of reshapeValues for mutation analysis: the old total impulse
\* is that of the curve before its times are mapped
reshapeValues_oldImpulse(thrust, newTimeArray, nbt, totalImpulse) ==
    The({[i \in DOMAIN thrust |-> Mul(Div(totalImpulse, oldTotalImpulse), thrust[i][2])]
            \o << >> :
         oldTotalImpulse \in
            {Integral(thrust, First(thrust)[1], Last(thrust)[1])}})

\* the thrust values scaled to the new total impulse
reshapeValues(thrust, newTimeArray, nbt, totalImpulse) ==
    The({[i \in DOMAIN thrust |-> Mul(Div(totalImpulse, oldTotalImpulse), thrust[i][2])]
            \o << >> :
         oldTotalImpulse \in
            {Integral(Function([i \in DOMAIN thrust |->
                                   <<newTimeArray[i], thrust[i][2]>>]),
                      nbt[1], nbt[2])}})

reshapeThrustCurve(thrust0, newBurnTime, totalImpulse) ==
    The({The({The({Function([i \in DOMAIN thrust |->
                                <<newTimeArray[i], newThrustArray[i]>>]) :
                   newThrustArray \in
                       {reshapeValues(thrust, newTimeArray, nbt, totalImpulse)}}) :
              newTimeArray \in {reshapeTimes(thrust, nbt)}}) :
         thrust \in {thrust0}, nbt \in {tuple_handler(newBurnTime)}})

---------------------------------------------------------------------------
(* Motor.clipThrust (static).                                              *)

\* the local burn_time after the two range checks
clipBurnTime(thrust, new_burn_time) ==
    LET bt == tuple_handler(new_burn_time)
        hi == IF Lt(Last(thrust)[1], bt[2]) THEN Last(thrust)[1] ELSE bt[2]
        lo == IF Lt(bt[1], First(thrust)[1]) THEN First(thrust)[1] ELSE bt[1]
    IN  <<lo, hi>>

changedBurnTime(thrust, new_burn_time) ==
    LET bt == tuple_handler(new_burn_time)
    IN  Lt(Last(thrust)[1], bt[2]) \/ Lt(bt[1], First(thrust)[1])

\* a variant of clipWarnings for mutation analysis: one warning for each
\* bound replaced
clipWarnings_perBound(thrust, new_burn_time) ==
    LET bt == tuple_handler(new_burn_time)
    IN  (IF Lt(Last(thrust)[1], bt[2]) THEN 1 ELSE 0)
        + (IF Lt(bt[1], First(thrust)[1]) THEN 1 ELSE 0)

\* number of warnings.warn calls of one clipThrust call
clipWarnings(thrust, new_burn_time) ==
    IF changedBurnTime(thrust, new_burn_time) THEN 1 ELSE 0

clipThrust(thrust0, new_burn_time) ==
    The({LET clipped_source == Between(thrust, burn_time[1], burn_time[2])
             endBurnData == <<burn_time[2], Eval(thrust, burn_time[2])>>
             startBurnData == <<burn_time[1], Eval(thrust, burn_time[1])>>
         IN  Function(<<startBurnData>> \o clipped_source \o <<endBurnData>>) :
         thrust \in {thrust0}, burn_time \in {clipBurnTime(thrust0, new_burn_time)}})

---------------------------------------------------------------------------
(* Motor.__init__ and the burn_time property.                              *)

\* the thrust source kinds of Motor.__init__: a number or a callable (the
\* rule t |-> c0 + c1 * t; a number is the rule with c1 = 0), or an array
ArraySource(points) ==
    [kind |-> "array", points |-> points, c0 |-> Zero, c1 |-> Zero]
NumberSource(value) ==
    [kind |-> "number", points |-> << >>, c0 |-> value, c1 |-> Zero]
CallableSource(c0, c1) ==
    [kind |-> "callable", points |-> << >>, c0 |-> c0, c1 |-> c1]

\* Function(thrustSource, ...): a number or a callable gives a Function
\* whose source is callable, an array gives a discrete Function
MakeFunction(thrustSource) ==
    [callable |-> thrustSource.kind # "array",
     source |-> IF thrustSource.kind = "array"
                THEN Function(thrustSource.points) ELSE << >>,
     c0 |-> thrustSource.c0,
     c1 |-> thrustSource.c1]

\* number of samples of the discretization of a callable thrust source
DiscretizeSamples == 50

\* Function.setDiscrete(lower, upper, samples, ...)
setDiscrete(f, lower, upper, samples) ==
    Function([i \in 1..samples |->
        The({<<x, Add(f.c0, Mul(f.c1, x))>> :
             x \in {Add(lower, Div(Mul(R(i - 1), Sub(upper, lower)),
                                   R(samples - 1)))}})])

\* the sign of the coordinate system orientation: {} when the attribute
\* _csys is not set
ResolveCsys(coordinateSystemOrientation) ==
    IF coordinateSystemOrientation = "nozzleToCombustionChamber" THEN {1}
    ELSE IF coordinateSystemOrientation = "combustionChamberToNozzle" THEN {-1}
    ELSE {}

\* a variant of burn_time_setter for mutation analysis: a burn time is
\* required whatever the thrust source
burn_time_setter_strict(thrust, burn_time) ==
    IF burn_time # << >>
    THEN [raised |-> "", value |-> tuple_handler(burn_time)]
    ELSE [raised |-> "ValueError", value |-> << >>]

\* burn_time.setter: << >> stands for None
burn_time_setter(thrust, burn_time) ==
    IF burn_time # << >>
    THEN [raised |-> "", value |-> tuple_handler(burn_time)]
    ELSE IF ~thrust.callable
    THEN [raised |-> "", value |-> <<First(thrust.source)[1], Last(thrust.source)[1]>>]
    ELSE [raised |-> "ValueError", value |-> << >>]

\* np.amax: nan when a value is nan
amax(y) ==
    IF \E i \in DOMAIN y : IsNaN(y[i]) THEN NaN
    ELSE y[CHOOSE i \in DOMAIN y : \A j \in DOMAIN y : Le(y[j], y[i])]

\* np.argmax: the first index of the maximum (of the first nan)
argmax(y) ==
    IF \E i \in DOMAIN y : IsNaN(y[i])
    THEN CHOOSE i \in DOMAIN y :
            IsNaN(y[i]) /\ \A j \in 1..(i - 1) : ~IsNaN(y[j])
    ELSE CHOOSE i \in DOMAIN y :
            /\ \A j \in DOMAIN y : Le(y[j], y[i])
            /\ \A j \in 1..(i - 1) : Lt(y[j], y[i])

\* Motor.totalImpulse (cached property): computed at its first read
totalImpulse(thrust, burn_time) == Integral(thrust, burn_time[1], burn_time[2])

\* Motor.__init__, the thrust curve before the clip: a callable source is
\* discretized over the burn time, then the curve is reshaped if asked
InitThrust(thrust0, burn_time, reshape) ==
    The({IF reshape # << >>
         THEN reshapeThrustCurve(thrust1, reshape[1], reshape[2])
         ELSE thrust1 :
         thrust1 \in {IF thrust0.callable
                      THEN setDiscrete(thrust0, burn_time[1], burn_time[2],
                                       DiscretizeSamples)
                      ELSE thrust0.source}})

\* a variant of InitBurnTime for mutation analysis: the burn time supplied
\* stays
InitBurnTime_supplied(thrust, burn_time, reshape) == burn_time

\* Motor.__init__, the burn time before the clip: a reshape overwrites it
InitBurnTime(thrust, burn_time, reshape) ==
    IF reshape # << >>
    THEN burn_time_setter([callable |-> FALSE, source |-> thrust],
                          <<First(thrust)[1], Last(thrust)[1]>>).value
    ELSE burn_time

\* a variant of MotorAttributes for mutation analysis: the average thrust
\* is the total impulse over the burn out time
MotorAttributes_overBurnOut(thrust, burn_time, impulse, nozzleRadius, nozzlePosition, coordinateSystemOrientation) ==
    [coordinateSystemOrientation |-> coordinateSystemOrientation,
     csys |-> ResolveCsys(coordinateSystemOrientation),
     thrust |-> thrust,
     burn_time |-> burn_time,
     burnStartTime |-> burn_time[1],
     burnOutTime |-> burn_time[2],
     burnDuration |-> Sub(burn_time[2], burn_time[1]),
     nozzleRadius |-> nozzleRadius,
     nozzlePosition |-> nozzlePosition,
     maxThrust |-> amax(yArray(thrust)),
     maxThrustTime |-> thrust[argmax(yArray(thrust))][1],
     totalImpulse |-> impulse,
     averageThrust |-> Div(impulse, burn_time[2])]

\* a variant of MotorAttributes for mutation analysis: the burn duration is
\* the burn out time
MotorAttributes_durationToBurnOut(thrust, burn_time, impulse, nozzleRadius, nozzlePosition, coordinateSystemOrientation) ==
    [coordinateSystemOrientation |-> coordinateSystemOrientation,
     csys |-> ResolveCsys(coordinateSystemOrientation),
     thrust |-> thrust,
     burn_time |-> burn_time,
     burnStartTime |-> burn_time[1],
     burnOutTime |-> burn_time[2],
     burnDuration |-> burn_time[2],
     nozzleRadius |-> nozzleRadius,
     nozzlePosition |-> nozzlePosition,
     maxThrust |-> amax(yArray(thrust)),
     maxThrustTime |-> thrust[argmax(yArray(thrust))][1],
     totalImpulse |-> impulse,
     averageThrust |-> Div(impulse, Sub(burn_time[2], burn_time[1]))]

\* Motor.__init__, the attributes set from the clipped curve on
MotorAttributes(thrust, burn_time, impulse, nozzleRadius, nozzlePosition, coordinateSystemOrientation) ==
    [coordinateSystemOrientation |-> coordinateSystemOrientation,
     csys |-> ResolveCsys(coordinateSystemOrientation),
     thrust |-> thrust,
     burn_time |-> burn_time,
     burnStartTime |-> burn_time[1],
     burnOutTime |-> burn_time[2],
     burnDuration |-> Sub(burn_time[2], burn_time[1]),
     nozzleRadius |-> nozzleRadius,
     nozzlePosition |-> nozzlePosition,
     maxThrust |-> amax(yArray(thrust)),
     maxThrustTime |-> thrust[argmax(yArray(thrust))][1],
     totalImpulse |-> impulse,
     averageThrust |-> Div(impulse, Sub(burn_time[2], burn_time[1]))]

\* the stages of Motor.__init__ that ran
InitSteps(callable, reshape) ==
    <<"csys", "Function", "burn_time">>
    \o (IF callable THEN <<"setDiscrete">> ELSE << >>)
    \o (IF reshape # << >> THEN <<"reshapeThrustCurve">> ELSE << >>)
    \o <<"clipThrust", "metrics">>

\* Motor.__init__ from a resolved burn time on
InitFrom(thrust0, bt0, nozzleRadius, nozzlePosition, reshape, coordinateSystemOrientation) ==
    The({The({The({
        [raised |-> "",
         warned |-> clipWarnings(thrust2, bt2),
         steps |-> InitSteps(thrust0.callable, reshape),
         obj |-> The({MotorAttributes(thrust3, bt2, impulse, nozzleRadius,
                                      nozzlePosition, coordinateSystemOrientation) :
                      impulse \in {totalImpulse(thrust3, bt2)}})] :
        thrust3 \in {clipThrust(thrust2, bt2)}}) :
        bt2 \in {InitBurnTime(thrust2, bt0, reshape)}}) :
        thrust2 \in {InitThrust(thrust0, bt0, reshape)}})

\* Motor.__init__: the outcome of a construction. obj is the instance
\* (<< >> when the construction raised), steps the stages that ran
MotorInit(thrustSource, nozzleRadius, burn_time, nozzlePosition, reshape, coordinateSystemOrientation) ==
    The({The({
        IF bt0.raised # ""
        THEN [raised |-> bt0.raised, obj |-> << >>, warned |-> 0,
              steps |-> <<"csys", "Function", "burn_time">>]
        ELSE InitFrom(thrust0, bt0.value, nozzleRadius, nozzlePosition, reshape,
                      coordinateSystemOrientation) :
        bt0 \in {burn_time_setter(thrust0, burn_time)}}) :
        thrust0 \in {MakeFunction(thrustSource)}})

---------------------------------------------------------------------------
(* Inputs.                                                                 *)

IntCurve(c) == [i \in DOMAIN c |-> <<R(c[i][1]), R(c[i][2])>>]

\* numbers of samples of the input curves
Lengths == {2, 3}

\* sample thrusts of the input curves
Thrusts == {0, 1, MaxThrust}

\* discrete thrust curves: strictly increasing integer times
Curves ==
    {IntCurve(c) : c \in
        {c \in UNION {[1..n -> (0..MaxTime) \X Thrusts] : n \in Lengths} :
            \A i \in 1..(Len(c) - 1) : c[i][1] < c[i + 1][1]}}

\* the curve of the specification's concrete scenario
ExampleCurve ==
    IntCurve(<<<<0, 0>>, <<1, 10>>, <<2, 20>>, <<3, 10>>, <<4, 0>>>>)

\* the reshape of the specification's scenario: new duration 8, new impulse 80
ExampleReshape ==
    [thrust |-> ExampleCurve, newBurnTime |-> <<R(8)>>, totalImpulse |-> R(80)]

\* the windows of the specification's scenarios: one reaching past both ends
\* of ExampleCurve's domain, one fully outside it
ExampleWindows == {<<R(-1), R(5)>>, <<R(5), R(6)>>}

WindowTimes == (0 - Margin)..(MaxTime + Margin)

\* burn windows: a single value v (read as (0, v)) or a pair (a, b), a < b
Windows ==
    {<<R(v)>> : v \in 1..(MaxTime + Margin)}
    \cup {<<R(x[1]), R(x[2])>> :
              x \in {y \in WindowTimes \X WindowTimes : y[1] < y[2]}}
    \cup ExampleWindows

\* new total impulses of a reshape
Impulses == {R(0), R(1), R(MaxThrust)}

---------------------------------------------------------------------------
(* Specification of the static curve transforms: the arguments are drawn   *)
(* in the initial state, the actions apply the transform.                  *)

Idle ==
    /\ motor = << >>
    /\ model = << >>
    /\ raised = ""
    /\ warned = 0
    /\ steps = << >>
    /\ ret = << >>

InitClip ==
    /\ pc = "clip"
    /\ call \in {[thrust |-> c, new_burn_time |-> w] :
                    c \in Curves \cup {ExampleCurve}, w \in Windows}
    /\ Idle

\* Motor.clipThrust(thrust, new_burn_time)
ClipThrust ==
    /\ pc = "clip"
    /\ pc' = "clipped"
    /\ ret' = <<clipThrust(call.thrust, call.new_burn_time)>>
    /\ warned' = warned + clipWarnings(call.thrust, call.new_burn_time)
    /\ UNCHANGED <<model, call, motor, raised, steps>>

\* Motor.clipThrust(result, new_burn_time): the result clipped once more
ClipAgain ==
    /\ pc = "clipped"
    /\ pc' = "reclipped"
    /\ ret' = Append(ret, clipThrust(ret[1], call.new_burn_time))
    /\ warned' = warned + clipWarnings(ret[1], call.new_burn_time)
    /\ UNCHANGED <<model, call, motor, raised, steps>>

NextClip == ClipThrust \/ ClipAgain

SpecClip == InitClip /\ [][NextClip]_vars

InitReshape ==
    /\ pc = "reshape"
    /\ call \in {[thrust |-> c, newBurnTime |-> w, totalImpulse |-> imp] :
                    c \in Curves \cup {ExampleCurve}, w \in Windows, imp \in Impulses}
                \cup {ExampleReshape}
    /\ Idle

\* Motor.reshapeThrustCurve(thrust, newBurnTime, totalImpulse)
ReshapeThrustCurve ==
    /\ pc = "reshape"
    /\ pc' = "reshaped"
    /\ ret' = <<reshapeThrustCurve(call.thrust, call.newBurnTime, call.totalImpulse)>>
    /\ UNCHANGED <<model, call, motor, raised, warned, steps>>

NextReshape == ReshapeThrustCurve

SpecReshape == InitReshape /\ [][NextReshape]_vars

---------------------------------------------------------------------------
(* Specification of Motor construction.                                    *)

ThrustSources ==
    {ArraySource(c) : c \in Curves \cup {ExampleCurve}}
    \cup {NumberSource(R(MaxThrust))}
    \cup {CallableSource(R(0), R(1))}

\* burn_time arguments: None, a single value v, a pair (a, b) with a <= b
BurnTimes ==
    {<< >>}
    \cup {<<R(v)>> : v \in 0..(MaxTime + Margin)}
    \cup {<<R(x[1]), R(x[2])>> :
              x \in {y \in WindowTimes \X WindowTimes : y[1] <= y[2]}}
    \cup ExampleWindows

\* reshapeThrustCurve arguments: False, or (new burn time, new total impulse)
ReshapeSpecs ==
    {<< >>}
    \cup {<<w, R(MaxThrust)>> : w \in {<<R(MaxTime + 1)>>, <<R(1), R(MaxTime)>>}}

Orientations ==
    {"nozzleToCombustionChamber", "combustionChamberToNozzle", "sideways"}

\* constructor calls: every thrust source with the default orientation,
\* every orientation with one thrust source of each kind
Calls ==
    [thrustSource : ThrustSources, burn_time : BurnTimes,
     reshapeThrustCurve : ReshapeSpecs,
     coordinateSystemOrientation : {"nozzleToCombustionChamber"}]
    \cup [thrustSource : {ArraySource(ExampleCurve), NumberSource(R(MaxThrust)),
                          CallableSource(R(0), R(1))},
          burn_time : BurnTimes,
          reshapeThrustCurve : ReshapeSpecs,
          coordinateSystemOrientation : Orientations]

\* the arguments of the constructor call are drawn in the initial state
Init ==
    /\ pc = "new"
    /\ call \in Calls
    /\ Idle

\* Motor(thrustSource, nozzleRadius, burn_time, nozzlePosition,
\*       reshapeThrustCurve, interpolationMethod, coordinateSystemOrientation)
Construct ==
    /\ pc = "new"
    /\ \E out \in {MotorInit(call.thrustSource, R(1), call.burn_time, Zero,
                             call.reshapeThrustCurve,
                             call.coordinateSystemOrientation)} :
          /\ pc' = IF out.raised = "" THEN "constructed" ELSE "failed"
          /\ motor' = out.obj
          /\ raised' = out.raised
          /\ warned' = out.warned
          /\ steps' = out.steps
    /\ UNCHANGED <<model, call, ret>>

Next == Construct

Spec == Init /\ [][Next]_vars

---------------------------------------------------------------------------
(* Specification of a Motor in use: the construction, then assignments to  *)
(* the burn_time property and reads of the cached totalImpulse.            *)

\* the constructor calls of a Motor in use
UseCalls ==
    [thrustSource : {ArraySource(ExampleCurve), NumberSource(R(MaxThrust))}
                    \cup {ArraySource(c) : c \in {d \in Curves : Len(d) = 2}},
     burn_time : {<< >>, <<R(MaxTime)>>, <<R(1), R(MaxTime)>>} \cup ExampleWindows,
     reshapeThrustCurve : {<< >>},
     coordinateSystemOrientation : {"nozzleToCombustionChamber"}]

\* the values assigned to motor.burn_time after the construction
AssignedBurnTimes ==
    {<< >>, <<R(1)>>, <<R(0), R(2)>>, <<R(1), R(MaxTime)>>}

InitUse ==
    /\ pc = "new"
    /\ call \in UseCalls
    /\ Idle

\* motor.burn_time = burn_time (burn_time.setter on a constructed Motor)
SetBurnTime ==
    /\ pc = "constructed"
    /\ \E burn_time \in AssignedBurnTimes :
       \E out \in {burn_time_setter([callable |-> FALSE, source |-> motor.thrust],
                                     burn_time)} :
          /\ raised' = out.raised
          /\ motor' = IF out.raised = ""
                       THEN [motor EXCEPT !.burn_time = out.value]
                       ELSE motor
    /\ ret' = << >>
    /\ UNCHANGED <<model, pc, call, warned, steps>>

\* motor.totalImpulse (cached property): the value cached at its first read,
\* which Motor.__init__ makes
ReadTotalImpulse ==
    /\ pc = "constructed"
    /\ ret' = <<motor.totalImpulse>>
    /\ UNCHANGED <<model, pc, call, motor, raised, warned, steps>>

NextUse == Construct \/ SetBurnTime \/ ReadTotalImpulse

SpecUse == InitUse /\ [][NextUse]_vars

---------------------------------------------------------------------------
(* The Motor variants: the abstract members of the core, the classes that  *)
(* override them, derived quantities that need a variant's members.        *)

\* an optional value: << >> is None, <<v>> the value v
None == << >>
Some(v) == <<v>>
IsNone(x) == Len(x) = 0

\* the members Motor declares with @abstractmethod
AbstractMembers ==
    {"mass", "propellantInitialMass", "centerOfMass", "inertiaTensor",
     "I_11", "I_22", "I_33", "I_12", "I_13", "I_23", "allInfo"}

\* the classes: the abstract core, GenericMotor, and a variant that overrides
\* every abstract member (as the SolidMotor, LiquidMotor and HybridMotor the
\* design names) and whose propellant initial mass is a given number
Classes == {"Motor", "GenericMotor", "ConcreteMotor"}

\* the abstract members a class body defines
Overrides(cls) ==
    IF cls = "GenericMotor" THEN AbstractMembers \ {"mass"}
    ELSE IF cls = "ConcreteMotor" THEN AbstractMembers
    ELSE {}

\* cls.__abstractmethods__: instantiation raises TypeError unless it is empty
abstractmethods(cls) == AbstractMembers \ Overrides(cls)

\* the class whose definition of member an instance of cls runs
Resolve(cls, member) == IF member \in Overrides(cls) THEN cls ELSE "Motor"

\* the abstract members of the core: the body is pass, the call returns None
CoreMember(member) == [raised |-> "", value |-> None]

\* Motor.exhaustVelocity
exhaustVelocity(impulse, propellantInitialMass) == Div(impulse, propellantInitialMass)

\* a variant of massDot for mutation analysis: the sign is not changed
massDot_positive(thrust, velocity) ==
    [i \in DOMAIN thrust |-> <<thrust[i][1], Div(thrust[i][2], velocity)>>] \o << >>

\* Motor.massDot: the Function -1 * thrust / exhaustVelocity, on the samples
\* of thrust
massDot(thrust, velocity) ==
    [i \in DOMAIN thrust |->
        <<thrust[i][1], Div(Mul(R(-1), thrust[i][2]), velocity)>>] \o << >>

\* GenericMotor.I_11 at one time, mass the value of self.mass at that time
\* (None * number raises TypeError)
GenericI_11(mass, chamberRadius, chamberHeight) ==
    IF IsNone(mass) THEN [raised |-> "TypeError", value |-> None]
    ELSE [raised |-> "",
          value |-> Some(Div(Mul(mass[1],
                                 Add(Mul(R(3), Mul(chamberRadius, chamberRadius)),
                                     Mul(chamberHeight, chamberHeight))),
                             R(12)))]

\* GenericMotor.I_33 at one time
GenericI_33(mass, chamberRadius) ==
    IF IsNone(mass) THEN [raised |-> "TypeError", value |-> None]
    ELSE [raised |-> "",
          value |-> Some(Div(Mul(mass[1], Mul(chamberRadius, chamberRadius)), R(2)))]

\* the members of GenericMotor on an instance obj; self.mass is the member
\* of the core
GenericMember(obj, member) ==
    LET mass == CoreMember("mass").value
        I == GenericI_11(mass, obj.chamberRadius, obj.chamberHeight)
        Z == GenericI_33(mass, obj.chamberRadius)
    IN  CASE member = "mass" -> CoreMember("mass")
          [] member = "propellantInitialMass" ->
                [raised |-> "", value |-> Some(obj.propellantInitialMass)]
          [] member = "centerOfMass" ->
                [raised |-> "", value |-> Some(obj.chamberPosition)]
          [] member = "inertiaTensor" ->
                IF I.raised # "" THEN I
                ELSE [raised |-> "", value |-> Some(<<I.value[1], I.value[1], Z.value[1]>>)]
          [] member \in {"I_11", "I_22"} -> I
          [] member = "I_33" -> Z
          [] member \in {"I_12", "I_13", "I_23"} -> [raised |-> "", value |-> Some(Zero)]
          [] OTHER -> IF IsNone(mass)
                      THEN [raised |-> "TypeError", value |-> None]
                      ELSE [raised |-> "", value |-> None]

\* the members of the variant that overrides them all: the propellant
\* initial mass is the given number, every other member yields its result
ConcreteMember(obj, member) ==
    IF member = "propellantInitialMass"
    THEN [raised |-> "", value |-> Some(obj.propellantInitialMass)]
    ELSE [raised |-> "", value |-> Some(member)]

\* obj.member for an instance obj of cls
Member(cls, obj, member) ==
    IF Resolve(cls, member) = "GenericMotor" THEN GenericMember(obj, member)
    ELSE IF Resolve(cls, member) = "ConcreteMotor" THEN ConcreteMember(obj, member)
    ELSE CoreMember(member)

\* the attributes a variant adds to those of the core
VariantAttributes(c) ==
    [cls |-> c.cls,
     chamberRadius |-> c.chamberRadius,
     chamberHeight |-> c.chamberHeight,
     chamberPosition |-> c.chamberPosition,
     propellantInitialMass |-> c.propellantInitialMass]

\* GenericMotor.__init__: super().__init__ is given burn_time second and
\* nozzleRadius third, the throat radius (default 1) fourth
GenericMotorInit(c) ==
    MotorInit(c.thrustSource, c.burn_time, <<c.nozzleRadius>>, R(1),
              << >>, "nozzleToCombustionChamber")

\* the __init__ of the variant that overrides every member: the arguments
\* reach Motor.__init__ under their names
ConcreteMotorInit(c) ==
    MotorInit(c.thrustSource, c.nozzleRadius, c.burn_time, Zero,
              << >>, "nozzleToCombustionChamber")

\* cls(...): the instantiation of a class of the Motor family
Instantiate(c) ==
    IF abstractmethods(c.cls) # {}
    THEN [raised |-> "TypeError", obj |-> << >>, warned |-> 0, steps |-> << >>]
    ELSE The({IF out.raised # "" THEN out
              ELSE [out EXCEPT !.obj = out.obj @@ VariantAttributes(c)] :
              out \in {IF c.cls = "GenericMotor" THEN GenericMotorInit(c)
                       ELSE ConcreteMotorInit(c)}})

---------------------------------------------------------------------------
(* Specification of the Motor variants: an instantiation, then reads of    *)
(* members and derived quantities.                                         *)

VariantCalls ==
    [cls : Classes,
     thrustSource : {ArraySource(ExampleCurve), NumberSource(R(MaxThrust))}
                    \cup {ArraySource(c) : c \in {d \in Curves : Len(d) = 2}},
     burn_time : {<<R(MaxTime)>>, <<R(1), R(MaxTime)>>},
     nozzleRadius : {R(1)},
     chamberRadius : {R(1), R(2)},
     chamberHeight : {R(2)},
     chamberPosition : {Zero},
     propellantInitialMass : {R(0), R(1), R(MaxThrust)}]

InitVariant ==
    /\ pc = "new"
    /\ call \in VariantCalls
    /\ Idle

\* Motor(...), GenericMotor(...) or the instantiation of a variant that
\* overrides every member
ConstructVariant ==
    /\ pc = "new"
    /\ \E out \in {Instantiate(call)} :
          /\ pc' = IF out.raised = "" THEN "constructed" ELSE "failed"
          /\ motor' = out.obj
          /\ raised' = out.raised
          /\ warned' = out.warned
          /\ steps' = out.steps
    /\ UNCHANGED <<model, call, ret>>

\* motor.massDot
ReadMassDot ==
    /\ pc = "constructed"
    /\ \E member \in {Member(motor.cls, motor, "propellantInitialMass")} :
          /\ raised' = member.raised
          /\ ret' = IF member.raised # "" THEN << >>
                    ELSE <<"massDot",
                           massDot(motor.thrust,
                                   exhaustVelocity(motor.totalImpulse,
                                                   member.value[1]))>>
    /\ UNCHANGED <<model, pc, call, motor, warned, steps>>

\* motor.member for an abstract member of the core
InvokeMember ==
    /\ pc = "constructed"
    /\ \E member \in AbstractMembers :
       \E out \in {Member(motor.cls, motor, member)} :
          /\ raised' = out.raised
          /\ ret' = <<"member", member, out.value>>
    /\ UNCHANGED <<model, pc, call, motor, warned, steps>>

\* the member of the abstract core itself, invoked for an instance
\* (super().member in a variant, Motor.member.fget(motor))
InvokeCore ==
    /\ pc = "constructed"
    /\ \E member \in AbstractMembers :
       \E out \in {CoreMember(member)} :
          /\ raised' = out.raised
          /\ ret' = <<"core", member, out.value>>
    /\ UNCHANGED <<model, pc, call, motor, warned, steps>>

NextVariant == ConstructVariant \/ ReadMassDot \/ InvokeMember \/ InvokeCore

SpecVariant == InitVariant /\ [][NextVariant]_vars

---------------------------------------------------------------------------
(* Motor.importEng (static): a file is a sequence of lines, a line a       *)
(* sequence of characters (its newline left out).                          *)

Whitespace == {" ", "\t"}
Digits == {"0", "1", "2", "3", "4", "5", "6", "7", "8", "9"}
DigitValue ==
    ("0" :> 0) @@ ("1" :> 1) @@ ("2" :> 2) @@ ("3" :> 3) @@ ("4" :> 4)
    @@ ("5" :> 5) @@ ("6" :> 6) @@ ("7" :> 7) @@ ("8" :> 8) @@ ("9" :> 9)

\* the index of the first character of line in set from index i on, 0 if none
RECURSIVE IndexIn(_, _, _)
IndexIn(line, set, i) ==
    IF i > Len(line) THEN 0
    ELSE IF line[i] \in set THEN i
    ELSE IndexIn(line, set, i + 1)

\* re.findall(r";.*", line)[0]: the comment of a line that has a ";"
engComment(line) == SubSeq(line, IndexIn(line, {";"}, 1), Len(line))

\* re.sub(r";.*", "", line)
engUncomment(line) ==
    IF IndexIn(line, {";"}, 1) = 0 THEN line
    ELSE SubSeq(line, 1, IndexIn(line, {";"}, 1) - 1)

\* str.strip()
RECURSIVE strip(_)
strip(line) ==
    IF line = << >> THEN line
    ELSE IF line[1] \in Whitespace THEN strip(Tail(line))
    ELSE IF line[Len(line)] \in Whitespace THEN strip(SubSeq(line, 1, Len(line) - 1))
    ELSE line

\* str.split(sep) for a separator of one character: the pieces between the
\* separators, the empty ones too
RECURSIVE split(_, _)
split(line, sep) ==
    IF IndexIn(line, {sep}, 1) = 0 THEN <<line>>
    ELSE <<SubSeq(line, 1, IndexIn(line, {sep}, 1) - 1)>>
         \o split(SubSeq(line, IndexIn(line, {sep}, 1) + 1, Len(line)), sep)

\* the number of digits of line from index i on
RECURSIVE DigitsRun(_, _)
DigitsRun(line, i) ==
    IF i > Len(line) \/ line[i] \notin Digits THEN 0
    ELSE 1 + DigitsRun(line, i + 1)

\* the length of the match of [-+]?\d*\.\d+|[-+]?\d+ at index i of line,
\* 0 if there is none
MatchLen(line, i) ==
    LET s == IF line[i] \in {"-", "+"} THEN 1 ELSE 0
        d == DigitsRun(line, i + s)
        dot == i + s + d <= Len(line) /\ line[i + s + d] = "."
        f == IF dot THEN DigitsRun(line, i + s + d + 1) ELSE 0
    IN  IF f > 0 THEN s + d + 1 + f
        ELSE IF d > 0 THEN s + d
        ELSE 0

\* re.findall(r"[-+]?\d*\.\d+|[-+]?\d+", line) from index i on
RECURSIVE findall(_, _)
findall(line, i) ==
    IF i > Len(line) THEN << >>
    ELSE IF MatchLen(line, i) = 0 THEN findall(line, i + 1)
    ELSE <<SubSeq(line, i, i + MatchLen(line, i) - 1)>>
         \o findall(line, i + MatchLen(line, i))

\* the number a run of digits denotes
RECURSIVE DigitsNumber(_)
DigitsNumber(digits) ==
    IF digits = << >> THEN 0
    ELSE 10 * DigitsNumber(SubSeq(digits, 1, Len(digits) - 1))
         + DigitValue[digits[Len(digits)]]

RECURSIVE Pow10(_)
Pow10(k) == IF k = 0 THEN 1 ELSE 10 * Pow10(k - 1)

\* float(token) for a token that findall returns
float(token) ==
    LET s == IF token[1] \in {"-", "+"} THEN 1 ELSE 0
        d == DigitsRun(token, 1 + s)
        whole == DigitsNumber(SubSeq(token, 1 + s, s + d))
        fraction == SubSeq(token, s + d + 2, Len(token))
        number == Norm(whole * Pow10(Len(fraction)) + DigitsNumber(fraction),
                       Pow10(Len(fraction)))
    IN  IF token[1] = "-" THEN Neg(number) ELSE number

\* a variant of engDataPoint for mutation analysis: a missing number is read
\* as 0
engDataPoint_lenient(line) ==
    LET tokens == findall(line, 1) \o <<<<"0">>, <<"0">>>>
    IN  [raised |-> "", point |-> <<float(tokens[1]), float(tokens[2])>>]

\* time, thrust = re.findall(...); [float(time), float(thrust)]: the
\* unpacking raises ValueError unless there are two tokens
engDataPoint(line) ==
    LET tokens == findall(line, 1)
    IN  IF Len(tokens) # 2 THEN [raised |-> "ValueError", point |-> << >>]
        ELSE [raised |-> "", point |-> <<float(tokens[1]), float(tokens[2])>>]

\* the description of a description line
engDescription(line) == split(strip(line), " ")

\* one pass of the loop over the lines of the file
engLine(acc, line0) ==
    LET comment == IndexIn(line0, {";"}, 1) # 0
        line == engUncomment(line0)
        comments == IF comment THEN Append(acc.comments, engComment(line0))
                    ELSE acc.comments
        point == engDataPoint(line)
    IN  IF acc.raised # "" THEN acc
        ELSE IF strip(line) = << >> THEN [acc EXCEPT !.comments = comments]
        ELSE IF acc.description = << >>
        THEN [acc EXCEPT !.comments = comments,
                         !.description = engDescription(line)]
        ELSE IF point.raised # ""
        THEN [acc EXCEPT !.comments = comments, !.raised = point.raised]
        ELSE [acc EXCEPT !.comments = comments,
                         !.dataPoints = Append(acc.dataPoints, point.point)]

RECURSIVE engLines(_, _, _)
engLines(acc, file, i) ==
    IF i > Len(file) THEN acc
    ELSE engLines(engLine(acc, file[i]), file, i + 1)

\* Motor.importEng(fileName) for the file of these lines: the loop runs in
\* "with open(fileName) as file", which closes the file on every way out
importEng(file) ==
    The({[acc EXCEPT !.file = "closed"] :
         acc \in {engLines([raised |-> "", comments |-> << >>,
                            description |-> << >>,
                            dataPoints |-> <<<<Zero, Zero>>>>,
                            file |-> "open"], file, 1)}})

\* the events of a file handle that an operation opened and left in the
\* state file
FileEvents(file) == IF file = "closed" THEN <<"open", "close">> ELSE <<"open">>

\* Motor.__init__ for a thrustSource that names an .eng file: the points of
\* the file are the thrust source
MotorInitEng(file) ==
    The({IF imported.raised # ""
         THEN [raised |-> imported.raised, obj |-> << >>, warned |-> 0,
               steps |-> <<"csys", "importEng">>]
         ELSE The({[out EXCEPT !.steps = <<"csys", "importEng">> \o Tail(out.steps)] :
                   out \in {MotorInit(ArraySource(imported.dataPoints), R(1), << >>,
                                      Zero, << >>, "nozzleToCombustionChamber")}}) :
         imported \in {importEng(file)}})

---------------------------------------------------------------------------
(* Specification of the motor file: the lines of the file are drawn in the *)
(* initial state, the file is imported or a Motor is constructed from it.  *)

\* files have 1..MaxLines lines
MaxLines == 3

\* a description line: 'F32 24 RV'
DescriptionLine == <<"F", "3", "2", " ", "2", "4", " ", "R", "V">>
\* a description line with two spaces and a tab between tokens: 'F32  24<tab>RV'
WideDescriptionLine == <<"F", "3", "2", " ", " ", "2", "4", "\t", "R", "V">>
\* a data line: '1 2'
DataLine == <<"1", " ", "2">>
\* a data line with a decimal, a sign and a comment: '2.5 -1 ;c'
CommentedDataLine == <<"2", ".", "5", " ", "-", "1", " ", ";", "c">>
\* a data line with three numeric tokens: '3 1 0'
LongDataLine == <<"3", " ", "1", " ", "0">>
\* a data line with one numeric token: '7'
ShortDataLine == <<"7">>
\* an empty line: ''
BlankLine == << >>
\* a line that is only a comment: ';x'
CommentLine == <<";", "x">>
\* a line of whitespace: ' <tab>'
SpaceLine == <<" ", "\t">>
\* a line without a numeric token: 'ab'
WordLine == <<"a", "b">>
EngLines ==
    {DescriptionLine,
     WideDescriptionLine,
     DataLine,
     CommentedDataLine,
     LongDataLine,
     ShortDataLine,
     BlankLine,
     CommentLine,
     SpaceLine,
     WordLine}

EngFiles == UNION {[1..n -> EngLines] : n \in 1..MaxLines}

InitEng ==
    /\ pc = "file"
    /\ call \in {[file |-> f \o << >>] : f \in EngFiles}
    /\ Idle

\* Motor.importEng(fileName)
ImportEng ==
    /\ pc = "file"
    /\ \E out \in {importEng(call.file)} :
          /\ pc' = IF out.raised = "" THEN "imported" ELSE "failed"
          /\ raised' = out.raised
          /\ ret' = IF out.raised = "" THEN <<out.comments, out.description, out.dataPoints>>
                    ELSE << >>
          /\ steps' = FileEvents(out.file)
    /\ UNCHANGED <<model, call, motor, warned>>

\* Motor("<file>.eng", nozzleRadius) for a file with a data line
ConstructEng ==
    /\ pc = "file"
    /\ importEng(call.file).raised # "" \/ Len(importEng(call.file).dataPoints) > 1
    /\ \E out \in {MotorInitEng(call.file)} :
          /\ pc' = IF out.raised = "" THEN "constructed" ELSE "failed"
          /\ motor' = out.obj
          /\ raised' = out.raised
          /\ warned' = out.warned
          /\ steps' = out.steps
    /\ UNCHANGED <<model, call, ret>>

NextEng == ImportEng \/ ConstructEng

SpecEng == InitEng /\ [][NextEng]_vars

---------------------------------------------------------------------------
(* Motor.exportEng: the file written is a sequence of lines, as the one    *)
(* importEng reads.                                                        *)

DigitChars == <<"0", "1", "2", "3", "4", "5", "6", "7", "8", "9">>

\* str(n) for a natural number n
RECURSIVE IntChars(_)
IntChars(n) ==
    IF n < 10 THEN <<DigitChars[n + 1]>>
    ELSE IntChars(n \div 10) \o <<DigitChars[(n % 10) + 1]>>

\* the k last digits of n, zeros included
RECURSIVE PadDigits(_, _)
PadDigits(n, k) ==
    IF k = 0 THEN << >>
    ELSE PadDigits(n \div 10, k - 1) \o <<DigitChars[(n % 10) + 1]>>

\* the integer nearest to n/d for n >= 0, d > 0, the even one of two
RoundDiv(n, d) ==
    IF 2 * (n % d) > d \/ (2 * (n % d) = d /\ (n \div d) % 2 = 1)
    THEN (n \div d) + 1
    ELSE n \div d

\* a variant of FormatFixed for mutation analysis: the digits past the k-th
\* are cut off
FormatFixed_truncated(x, k) ==
    IF IsNaN(x) THEN <<"n", "a", "n">>
    ELSE IF ~IsFinite(x)
    THEN (IF x.n < 0 THEN <<"-">> ELSE << >>) \o <<"i", "n", "f">>
    ELSE The({(IF x.n < 0 THEN <<"-">> ELSE << >>)
              \o IntChars(q \div Pow10(k)) \o <<".">> \o PadDigits(q % Pow10(k), k) :
              q \in {(Abs(x.n) * Pow10(k)) \div x.d}})

\* "{:.kf}".format(x): the sign, the whole part, a point and k decimals of x
\* rounded to k decimals (the sign of a negative x stays when it rounds to
\* zero); nan and inf by name
FormatFixed(x, k) ==
    IF IsNaN(x) THEN <<"n", "a", "n">>
    ELSE IF ~IsFinite(x)
    THEN (IF x.n < 0 THEN <<"-">> ELSE << >>) \o <<"i", "n", "f">>
    ELSE The({(IF x.n < 0 THEN <<"-">> ELSE << >>)
              \o IntChars(q \div Pow10(k)) \o <<".">> \o PadDigits(q % Pow10(k), k) :
              q \in {RoundDiv(Abs(x.n) * Pow10(k), x.d)}})

\* "{:2.3}".format(x) for a float x that is a whole number below 100 (the
\* propellant masses of the inputs): the number and ".0"
FormatGeneral(x) ==
    (IF x.n < 0 THEN <<"-">> ELSE << >>) \o IntChars(Abs(x.n)) \o <<".", "0">>

\* the attributes of the grain geometry that exportEng reads
GrainAttributes ==
    {"grainOuterRadius", "grainNumber", "grainInitialHeight", "grainSeparation"}

\* the description line of exportEng
exportEngDescription(obj, motorName, propellantInitialMass) ==
    motorName \o <<" ">>
    \o FormatFixed(Mul(R(2000), obj.grainOuterRadius), 1) \o <<" ">>
    \o FormatFixed(Mul(Mul(R(1000), obj.grainNumber),
                       Add(obj.grainInitialHeight, obj.grainSeparation)), 1)
    \o <<" ", "0", " ">>
    \o FormatGeneral(propellantInitialMass) \o <<" ">>
    \o FormatGeneral(propellantInitialMass)
    \o <<" ", "R", "o", "c", "k", "e", "t", "P", "y">>

\* one line of thrust data of exportEng
exportEngDataLine(time, thrust) ==
    FormatFixed(time, 4) \o <<" ">> \o FormatFixed(thrust, 3)

\* motor.exportEng(fileName, motorName) for an instance obj of cls: the file
\* is opened, then the lines are formatted and written, then the file is
\* closed; a line that cannot be formatted (an attribute the instance does
\* not have, a propellant mass that is None) raises with the file open and
\* nothing written
exportEng(cls, obj, motorName) ==
    LET mass == Member(cls, obj, "propellantInitialMass")
        n == Len(obj.thrust)
    IN  IF ~(GrainAttributes \subseteq DOMAIN obj)
        THEN [raised |-> "AttributeError", lines |-> << >>, file |-> "open"]
        ELSE IF mass.raised # ""
        THEN [raised |-> mass.raised, lines |-> << >>, file |-> "open"]
        ELSE IF IsNone(mass.value)
        THEN [raised |-> "TypeError", lines |-> << >>, file |-> "open"]
        ELSE [raised |-> "",
              lines |-> <<exportEngDescription(obj, motorName, mass.value[1])>>
                        \o [i \in 1..(n - 2) |->
                               exportEngDataLine(obj.thrust[i + 1][1],
                                                 obj.thrust[i + 1][2])]
                        \o <<exportEngDataLine(obj.thrust[n][1], Zero)>>,
              file |-> "closed"]

\* the grain geometry of a variant that has one (the SolidMotor the design
\* names): the attributes its __init__ stores
GrainGeometry(c) ==
    [grainOuterRadius |-> c.grainOuterRadius,
     grainNumber |-> c.grainNumber,
     grainInitialHeight |-> c.grainInitialHeight,
     grainSeparation |-> c.grainSeparation]

\* cls(...) for a class of the Motor family, with or without grain geometry
InstantiateGrain(c) ==
    The({IF out.raised = "" /\ c.grains
         THEN [out EXCEPT !.obj = out.obj @@ GrainGeometry(c)]
         ELSE out :
         out \in {Instantiate(c)}})

---------------------------------------------------------------------------
(* Specification of the motor file, both ways: a file is imported, or a    *)
(* variant is instantiated, exported, and the file written is imported.    *)

\* a curve whose samples need rounding: times and thrusts with more than 4
\* and 3 decimals, a thrust halfway between two values of 3 decimals, a
\* negative thrust that rounds to zero, a last thrust that is not zero
RoundingCurve ==
    <<<<Zero, R(1)>>,
      <<Norm(1, 3), Norm(20, 3)>>,
      <<Norm(5, 8), Norm(1, 16)>>,
      <<Norm(2, 3), Norm(-1, 10000)>>,
      <<R(1), R(-1)>>,
      <<R(2), R(1)>>>>

\* the motor name of the inputs
MotorName == <<"M", "1">>

ExportCalls ==
    {c \in [cls : {"GenericMotor", "ConcreteMotor"},
            grains : BOOLEAN,
            thrustSource : {ArraySource(ExampleCurve), ArraySource(RoundingCurve)}
                           \cup {ArraySource(d) : d \in {e \in Curves : Len(e) = 2}},
            burn_time : {<< >>, <<R(MaxTime)>>, <<R(1), Norm(5, 3)>>},
            nozzleRadius : {R(1)},
            chamberRadius : {R(1)},
            chamberHeight : {R(2)},
            chamberPosition : {Zero},
            propellantInitialMass : {R(0), R(MaxThrust)},
            grainOuterRadius : {Norm(33, 1000)},
            grainNumber : {R(5)},
            grainInitialHeight : {Norm(12, 100)},
            grainSeparation : {Norm(5, 1000)},
            motorName : {MotorName}] :
        c.grains => c.cls = "ConcreteMotor"}

InitExport ==
    /\ pc = "new"
    /\ call \in ExportCalls
    /\ Idle

\* the instantiation of a variant
ConstructGrain ==
    /\ pc = "new"
    /\ \E out \in {InstantiateGrain(call)} :
          /\ pc' = IF out.raised = "" THEN "constructed" ELSE "failed"
          /\ motor' = out.obj
          /\ raised' = out.raised
          /\ warned' = out.warned
          /\ steps' = out.steps
    /\ UNCHANGED <<model, call, ret>>

\* motor.exportEng(fileName, motorName)
ExportEng ==
    /\ pc = "constructed"
    /\ \E out \in {exportEng(motor.cls, motor, call.motorName)} :
          /\ pc' = IF out.raised = "" THEN "exported" ELSE "failed"
          /\ raised' = out.raised
          /\ ret' = <<out.lines>>
          /\ steps' = steps \o FileEvents(out.file)
    /\ UNCHANGED <<model, call, motor, warned>>

\* Motor.importEng(fileName) for the file that exportEng wrote
ImportExported ==
    /\ pc = "exported"
    /\ \E out \in {importEng(ret[1])} :
          /\ pc' = IF out.raised = "" THEN "reimported" ELSE "failed"
          /\ raised' = out.raised
          /\ ret' = IF out.raised = "" THEN <<ret[1], out.dataPoints>> ELSE <<ret[1]>>
          /\ steps' = steps \o FileEvents(out.file)
    /\ UNCHANGED <<model, call, motor, warned>>

InitFile == InitEng \/ InitExport

NextFile == ImportEng \/ ConstructGrain \/ ExportEng \/ ImportExported

SpecFile == InitFile /\ [][NextFile]_vars

---------------------------------------------------------------------------
(* rocketpy.sensitivity.SensitivityModel: the dictionaries keyed by the    *)
(* parameter and target variable names are sequences in the order of the   *)
(* names, a matrix is the sequence of its rows.                            *)

\* np.sqrt(x): the square root of x, kept by its radicand
sqrt(x) == [radicand |-> x]

\* np.power(x, 2)
power2(x) == IF "radicand" \in DOMAIN x THEN x.radicand ELSE Mul(x, x)

\* the sum of the numbers of v
RECURSIVE Sum(_)
Sum(v) == IF Len(v) = 0 THEN Zero ELSE Add(v[1], Sum(Tail(v)))

\* np.mean(v)
mean(v) == Div(Sum(v), R(Len(v)))

\* np.std(v)
std(v) ==
    The({sqrt(mean([i \in DOMAIN v |-> power2(Sub(v[i], m))] \o << >>)) :
         m \in {mean(v)}})

\* matrix[:, k]
Column(matrix, k) == [i \in DOMAIN matrix |-> matrix[i][k]] \o << >>

\* SensitivityModel.__init__
SensitivityModelInit(parameters_names, target_variables_names) ==
    [n_parameters |-> Len(parameters_names),
     parameters_names |-> parameters_names,
     parameters_info |->
        [k \in DOMAIN parameters_names |->
            [nominal_mean |-> None, nominal_sd |-> None]] \o << >>,
     n_target_variables |-> Len(target_variables_names),
     target_variables_names |-> target_variables_names,
     target_variables_info |->
        [i \in DOMAIN target_variables_names |->
            [nominal_value |-> None, sd |-> None, var |-> None, model |-> None,
             sensitivity |-> [k \in DOMAIN parameters_names |-> None] \o << >>,
             LAE |-> None]] \o << >>,
     number_of_samples |-> None,
     _nominal_parameters_passed |-> FALSE,
     _nominal_target_passed |-> FALSE,
     _fitted |-> FALSE]

\* a variant of set_parameters_nominal for mutation analysis: the means are
\* stored before the length of the sd array is checked
set_parameters_nominal_eager(self, parameters_nominal_mean, parameters_nominal_sd) ==
    IF Len(parameters_nominal_mean) # self.n_parameters
    THEN [raised |-> "ValueError", self |-> self]
    ELSE IF Len(parameters_nominal_sd) # self.n_parameters
    THEN [raised |-> "ValueError",
          self |-> [self EXCEPT !.parameters_info =
                      [k \in DOMAIN self.parameters_names |->
                          [self.parameters_info[k] EXCEPT
                              !.nominal_mean = Some(parameters_nominal_mean[k])]]
                      \o << >>]]
    ELSE [raised |-> "",
          self |-> [self EXCEPT
                      !.parameters_info =
                          [k \in DOMAIN self.parameters_names |->
                              [nominal_mean |-> Some(parameters_nominal_mean[k]),
                               nominal_sd |-> Some(parameters_nominal_sd[k])]] \o << >>,
                      !._nominal_parameters_passed = TRUE]]

\* SensitivityModel.set_parameters_nominal
set_parameters_nominal(self, parameters_nominal_mean, parameters_nominal_sd) ==
    IF Len(parameters_nominal_mean) # self.n_parameters
    THEN [raised |-> "ValueError", self |-> self]
    ELSE IF Len(parameters_nominal_sd) # self.n_parameters
    THEN [raised |-> "ValueError", self |-> self]
    ELSE [raised |-> "",
          self |-> [self EXCEPT
                      !.parameters_info =
                          [k \in DOMAIN self.parameters_names |->
                              [nominal_mean |-> Some(parameters_nominal_mean[k]),
                               nominal_sd |-> Some(parameters_nominal_sd[k])]] \o << >>,
                      !._nominal_parameters_passed = TRUE]]

\* SensitivityModel.set_target_variables_nominal
set_target_variables_nominal(self, target_variables_nominal_value) ==
    IF Len(target_variables_nominal_value) # self.n_target_variables
    THEN [raised |-> "ValueError", self |-> self]
    ELSE [raised |-> "",
          self |-> [self EXCEPT
                      !.target_variables_info =
                          [i \in DOMAIN self.target_variables_names |->
                              [self.target_variables_info[i] EXCEPT
                                  !.nominal_value =
                                      Some(target_variables_nominal_value[i])]]
                          \o << >>,
                      !._nominal_target_passed = TRUE]]

\* SensitivityModel._estimate_parameter_nominal: the parameters_info it
\* leaves
estimate_parameter_nominal(self, parameters_matrix) ==
    [k \in DOMAIN self.parameters_names |->
        [nominal_mean |-> Some(mean(Column(parameters_matrix, k))),
         nominal_sd |-> Some(std(Column(parameters_matrix, k)))]] \o << >>

\* target data: an array (ndim 1) or a matrix (ndim 2); data is the
\* sequence of the rows, a row of an array being its one value
Array(data) == [ndim |-> 1, data |-> [i \in DOMAIN data |-> <<data[i]>>] \o << >>]
Matrix(data) == [ndim |-> 2, data |-> data]

\* target_data as a matrix: target_data.reshape(number_of_samples, 1) for
\* an array
TargetMatrix(target_data) == target_data.data

\* SensitivityModel._estimate_target_nominal: the nominal values it leaves
estimate_target_nominal(self, target_data) ==
    [i \in DOMAIN self.target_variables_names |->
        mean(Column(TargetMatrix(target_data), i))] \o << >>

\* SensitivityModel.__check_conformity: the exception it raises, "" if none
check_conformity(self, parameters_matrix, target_data) ==
    IF Len(parameters_matrix[1]) # self.n_parameters THEN "ValueError"
    ELSE IF target_data.ndim = 1 /\ self.n_target_variables > 1 THEN "ValueError"
    ELSE IF target_data.ndim # 1 /\ Len(target_data.data[1]) # self.n_target_variables
    THEN "ValueError"
    ELSE IF Len(target_data.data) # Len(parameters_matrix) THEN "ValueError"
    ELSE ""

\* the sum over the samples of the products of the deviations of u and v
\* from their means
Deviations(u, v) ==
    The({Sum([i \in DOMAIN u |-> Mul(Sub(u[i], m[1]), Sub(v[i], m[2]))] \o << >>) :
         m \in {<<mean(u), mean(v)>>}})

\* the slopes of the least squares fit of Y on the columns of X (one or two,
\* of full rank with the constant)
Slopes(Y, X) ==
    IF Len(X[1]) = 1
    THEN <<Div(Deviations(Column(X, 1), Y),
               Deviations(Column(X, 1), Column(X, 1)))>>
    ELSE The({<<Div(Sub(Mul(S.bb, S.ay), Mul(S.ab, S.by)),
                    Sub(Mul(S.aa, S.bb), Mul(S.ab, S.ab))),
                Div(Sub(Mul(S.aa, S.by), Mul(S.ab, S.ay)),
                    Sub(Mul(S.aa, S.bb), Mul(S.ab, S.ab)))>> :
              S \in {[aa |-> Deviations(Column(X, 1), Column(X, 1)),
                      ab |-> Deviations(Column(X, 1), Column(X, 2)),
                      bb |-> Deviations(Column(X, 2), Column(X, 2)),
                      ay |-> Deviations(Column(X, 1), Y),
                      by |-> Deviations(Column(X, 2), Y)]}})

\* sm.OLS(Y, sm.add_constant(X)).fit(): params are the intercept and the
\* slopes, scale is the sum of the squared residuals over the residual
\* degrees of freedom
OLS(Y, X) ==
    The({The({
        [params |-> <<const>> \o beta,
         scale |->
            Div(Sum([i \in DOMAIN Y |->
                        power2(Sub(Y[i],
                                   Add(const,
                                       Sum([k \in DOMAIN beta |->
                                               Mul(beta[k], X[i][k])] \o << >>))))]
                    \o << >>),
                R(Len(Y) - Len(X[1]) - 1))] :
        const \in {Sub(mean(Y),
                       Sum([k \in DOMAIN beta |->
                               Mul(beta[k], mean(Column(X, k)))] \o << >>))}}) :
        beta \in {Slopes(Y, X)}})

\* a variant of fitTarget for mutation analysis: the LAE is the residual
\* variance
fitTarget_residualLAE(Y, X, parameters_sd, nominal_value) ==
    The({The({The({
        [nominal_value |-> Some(nominal_value),
         sd |-> Some(sqrt(var_Y)),
         var |-> Some(var_Y),
         model |-> Some(fitted_model),
         sensitivity |-> [k \in DOMAIN sensitivity |->
                             Some(Div(sensitivity[k], var_Y))] \o << >>,
         LAE |-> Some(fitted_model.scale)] :
        var_Y \in {Add(fitted_model.scale, Sum(sensitivity))}}) :
        sensitivity \in {[k \in DOMAIN parameters_sd |->
                             Mul(power2(fitted_model.params[k + 1]),
                                 power2(parameters_sd[k]))] \o << >>}}) :
        fitted_model \in {OLS([i \in DOMAIN Y |-> Sub(Y[i], nominal_value)] \o << >>, X)}})

\* SensitivityModel.fit, one pass of the loop over the target variables:
\* the entry of target_variables_info it leaves
fitTarget(Y, X, parameters_sd, nominal_value) ==
    The({The({The({
        [nominal_value |-> Some(nominal_value),
         sd |-> Some(sqrt(var_Y)),
         var |-> Some(var_Y),
         model |-> Some(fitted_model),
         sensitivity |-> [k \in DOMAIN sensitivity |->
                             Some(Div(sensitivity[k], var_Y))] \o << >>,
         LAE |-> Some(Div(fitted_model.scale, var_Y))] :
        var_Y \in {Add(fitted_model.scale, Sum(sensitivity))}}) :
        sensitivity \in {[k \in DOMAIN parameters_sd |->
                             Mul(power2(fitted_model.params[k + 1]),
                                 power2(parameters_sd[k]))] \o << >>}}) :
        fitted_model \in {OLS([i \in DOMAIN Y |-> Sub(Y[i], nominal_value)] \o << >>, X)}})

\* SensitivityModel.fit
fit(self, parameters_matrix, target_data) ==
    IF check_conformity(self, parameters_matrix, target_data) # ""
    THEN [raised |-> check_conformity(self, parameters_matrix, target_data),
          self |-> self]
    ELSE The({The({
        [raised |-> "",
         self |->
            [self EXCEPT
                !.parameters_info = info,
                !.number_of_samples = Some(Len(parameters_matrix)),
                !.target_variables_info =
                    The({[i \in DOMAIN self.target_variables_names |->
                             fitTarget(Column(TargetMatrix(target_data), i), X,
                                       [k \in DOMAIN info |-> info[k].nominal_sd[1]]
                                           \o << >>,
                                       nominal[i])] \o << >> :
                         X \in {[i \in DOMAIN parameters_matrix |->
                                    [k \in DOMAIN info |->
                                        Sub(parameters_matrix[i][k],
                                            info[k].nominal_mean[1])] \o << >>]
                                \o << >>}}),
                !._fitted = TRUE]] :
        nominal \in {IF self._nominal_target_passed
                     THEN [i \in DOMAIN self.target_variables_names |->
                              self.target_variables_info[i].nominal_value[1]] \o << >>
                     ELSE estimate_target_nominal(self, target_data)}}) :
        info \in {IF self._nominal_parameters_passed THEN self.parameters_info
                  ELSE estimate_parameter_nominal(self, parameters_matrix)}})

\* a variant of check_if_fitted for mutation analysis: it never raises
check_if_fitted_never(self) == ""

\* SensitivityModel.__check_if_fitted: the exception it raises, "" if none
check_if_fitted(self) == IF ~self._fitted THEN "Exception" ELSE ""

\* SensitivityModel.plot: the bars are drawn, the model is left as it is
plot(self, target_variable) ==
    IF check_if_fitted(self) # ""
    THEN [raised |-> check_if_fitted(self), self |-> self]
    ELSE IF target_variable # "all"
            /\ \A i \in DOMAIN self.target_variables_names :
                  self.target_variables_names[i] # target_variable
    THEN [raised |-> "ValueError", self |-> self]
    ELSE [raised |-> "", self |-> self]

\* SensitivityModel.summary: the tables are printed, the model is left as
\* it is
summary(self) ==
    IF check_if_fitted(self) # ""
    THEN [raised |-> check_if_fitted(self), self |-> self]
    ELSE [raised |-> "", self |-> self]

---------------------------------------------------------------------------
(* Specification of a SensitivityModel in use: the names are drawn in the  *)
(* initial state, which is the one after the construction; the actions are *)
(* the calls of its methods, pc the method called last and ret its         *)
(* arguments.                                                              *)

IntVector(v) == [i \in DOMAIN v |-> R(v[i])] \o << >>
IntMatrix(m) == [i \in DOMAIN m |-> IntVector(m[i])] \o << >>

SensitivityCalls ==
    [parameters_names : {<<"a">>, <<"a", "b">>},
     target_variables_names : {<<"y">>, <<"y", "z">>}]

\* nominal means, nominal sds and nominal target values: for one name and
\* for two
NominalMeans == {IntVector(<<1>>), IntVector(<<1, 0>>)}
NominalSds == {IntVector(<<2>>), IntVector(<<2, 1>>)}
NominalValues == {IntVector(<<1>>), IntVector(<<1, 2>>)}

\* parameter data: 3 samples and 2 samples of one parameter, 4 samples of
\* two parameters
ParameterMatrices ==
    {IntMatrix(<<<<0>>, <<1>>, <<2>>>>),
     IntMatrix(<<<<0>>, <<1>>>>),
     IntMatrix(<<<<0, 0>>, <<1, 0>>, <<0, 1>>, <<2, 2>>>>)}

\* target data: arrays of 3, 2 and 4 samples, one of them constant, and
\* matrices of 3 and 4 samples of two target variables
TargetData ==
    {Array(IntVector(<<0, 1, 3>>)),
     Array(IntVector(<<1, 1, 1>>)),
     Array(IntVector(<<1, 2>>)),
     Array(IntVector(<<1, 2, 2, 4>>)),
     Matrix(IntMatrix(<<<<0, 1>>, <<1, 1>>, <<3, 2>>>>)),
     Matrix(IntMatrix(<<<<0, 1>>, <<1, 2>>, <<3, 2>>, <<4, 5>>>>))}

PlotTargets == {"all", "y", "z", "w"}

InitSensitivity ==
    /\ pc = "SensitivityModel"
    /\ call \in SensitivityCalls
    /\ model = SensitivityModelInit(call.parameters_names, call.target_variables_names)
    /\ motor = << >>
    /\ raised = ""
    /\ warned = 0
    /\ steps = << >>
    /\ ret = << >>

\* model.set_parameters_nominal(parameters_nominal_mean, parameters_nominal_sd)
SetParametersNominal ==
    \E parameters_nominal_mean \in NominalMeans, parameters_nominal_sd \in NominalSds :
    \E out \in {set_parameters_nominal(model, parameters_nominal_mean,
                                       parameters_nominal_sd)} :
        /\ pc' = "set_parameters_nominal"
        /\ ret' = <<parameters_nominal_mean, parameters_nominal_sd>>
        /\ raised' = out.raised
        /\ model' = out.self
        /\ UNCHANGED <<call, motor, warned, steps>>

\* model.set_target_variables_nominal(target_variables_nominal_value)
SetTargetVariablesNominal ==
    \E target_variables_nominal_value \in NominalValues :
    \E out \in {set_target_variables_nominal(model, target_variables_nominal_value)} :
        /\ pc' = "set_target_variables_nominal"
        /\ ret' = <<target_variables_nominal_value>>
        /\ raised' = out.raised
        /\ model' = out.self
        /\ UNCHANGED <<call, motor, warned, steps>>

\* model.fit(parameters_matrix, target_data)
Fit ==
    \E parameters_matrix \in ParameterMatrices, target_data \in TargetData :
    \E out \in {fit(model, parameters_matrix, target_data)} :
        /\ pc' = "fit"
        /\ ret' = <<parameters_matrix, target_data>>
        /\ raised' = out.raised
        /\ model' = out.self
        /\ UNCHANGED <<call, motor, warned, steps>>

\* model.plot(target_variable)
Plot ==
    \E target_variable \in PlotTargets :
    \E out \in {plot(model, target_variable)} :
        /\ pc' = "plot"
        /\ ret' = <<target_variable>>
        /\ raised' = out.raised
        /\ model' = out.self
        /\ UNCHANGED <<call, motor, warned, steps>>

\* model.summary()
Summary ==
    \E out \in {summary(model)} :
        /\ pc' = "summary"
        /\ ret' = << >>
        /\ raised' = out.raised
        /\ model' = out.self
        /\ UNCHANGED <<call, motor, warned, steps>>

NextSensitivity ==
    SetParametersNominal \/ SetTargetVariablesNominal \/ Fit \/ Plot \/ Summary

SpecSensitivity == InitSensitivity /\ [][NextSensitivity]_vars

---------------------------------------------------------------------------
(* Claims about Motor construction (specification Spec).                   *)

Constructed == pc = "constructed"
FromArray == call.thrustSource.kind = "array"
Samples == call.thrustSource.points

\* the Motor built from the same arguments with burn_time omitted
DefaultWindowMotor ==
    MotorInit(call.thrustSource, R(1), << >>, Zero, call.reshapeThrustCurve,
              call.coordinateSystemOrientation).obj

\* the burn window requested lies strictly around the sample domain
WindowAroundSamples ==
    /\ FromArray
    /\ Len(call.burn_time) = 2
    /\ Lt(call.burn_time[1], First(Samples)[1])
    /\ Lt(Last(Samples)[1], call.burn_time[2])

\* C1: a Motor built from samples S with a burn window (a, b), a before the
\* first and b after the last sample time, has the burn_time, burnStartTime,
\* burnOutTime, burnDuration, totalImpulse, maxThrust, maxThrustTime and
\* averageThrust of the Motor built from S with no burn window.
C1_ClampedWindowAsDefault ==
    (Constructed /\ WindowAroundSamples) =>
        /\ motor.burn_time = DefaultWindowMotor.burn_time
        /\ motor.burnStartTime = DefaultWindowMotor.burnStartTime
        /\ motor.burnOutTime = DefaultWindowMotor.burnOutTime
        /\ motor.burnDuration = DefaultWindowMotor.burnDuration
        /\ motor.totalImpulse = DefaultWindowMotor.totalImpulse
        /\ motor.maxThrust = DefaultWindowMotor.maxThrust
        /\ motor.maxThrustTime = DefaultWindowMotor.maxThrustTime
        /\ motor.averageThrust = DefaultWindowMotor.averageThrust

\* C2: after every successful construction the stored curve's first and
\* last sample times are the stored burn window's start and end, which are
\* burnStartTime and burnOutTime.
C2_CurveDomainIsBurnWindow ==
    Constructed =>
        /\ First(motor.thrust)[1] = motor.burn_time[1]
        /\ motor.burn_time[1] = motor.burnStartTime
        /\ Last(motor.thrust)[1] = motor.burn_time[2]
        /\ motor.burn_time[2] = motor.burnOutTime

\* C3: with a number or a callable as thrust source and burn_time omitted
\* the construction raises the burn-time-required ValueError before the
\* discretization, the reshape, the clip and the metrics, and leaves no
\* instance; with samples and burn_time omitted it does not raise.
C3_BurnTimeRequired ==
    (pc # "new" /\ call.burn_time = << >>) =>
        IF FromArray
        THEN pc = "constructed" /\ raised = ""
        ELSE /\ pc = "failed"
             /\ raised = "ValueError"
             /\ motor = << >>
             /\ \A i \in DOMAIN steps :
                    steps[i] \notin {"setDiscrete", "reshapeThrustCurve",
                                     "clipThrust", "metrics"}

C3_Witness ==
    /\ pc = "failed"
    /\ call.thrustSource.kind = "number"
    /\ call.burn_time = << >>
    /\ raised = "ValueError"

\* C4: the construction resolves the orientation tag to +1 (nozzle to
\* combustion chamber) or -1 (combustion chamber to nozzle); with any other
\* tag it fails, and no Motor exists whose orientation sign is unset.
C4_OrientationResolved ==
    Constructed =>
        /\ call.coordinateSystemOrientation = "nozzleToCombustionChamber"
            => motor.csys = {1}
        /\ call.coordinateSystemOrientation = "combustionChamberToNozzle"
            => motor.csys = {-1}
        /\ motor.csys # {}

\* the samples the Motor keeps: the reshaped ones when a reshape is asked
KeptSamples ==
    IF call.reshapeThrustCurve # << >>
    THEN reshapeThrustCurve(Samples, call.reshapeThrustCurve[1],
                            call.reshapeThrustCurve[2])
    ELSE Samples

\* the samples kept are numbers (a reshape of a curve of zero impulse gives
\* nan thrusts)
KeptFinite == \A i \in DOMAIN KeptSamples : IsFinite(KeptSamples[i][2])

\* C5: for a Motor built from samples with no burn window, the burn window
\* is (first sample time, last sample time), totalImpulse the trapezoidal
\* integral of the samples, maxThrust the largest sample thrust,
\* maxThrustTime the time of the (first) sample with it, averageThrust
\* totalImpulse over the window length; the samples (0,0), (1,10), (2,20),
\* (3,10), (4,0) give window (0,4), impulse 40, 20 at t = 2, average 10.
C5_DefaultWindowMetrics ==
    (Constructed /\ FromArray /\ call.burn_time = << >> /\ KeptFinite) =>
        /\ motor.burn_time = <<First(KeptSamples)[1], Last(KeptSamples)[1]>>
        /\ motor.totalImpulse = Trapz(KeptSamples)
        /\ \A i \in DOMAIN KeptSamples : Le(KeptSamples[i][2], motor.maxThrust)
        /\ \E i \in DOMAIN KeptSamples :
               /\ KeptSamples[i] = <<motor.maxThrustTime, motor.maxThrust>>
               /\ \A j \in 1..(i - 1) : Lt(KeptSamples[j][2], motor.maxThrust)
        /\ motor.averageThrust =
               Div(Trapz(KeptSamples),
                   Sub(Last(KeptSamples)[1], First(KeptSamples)[1]))
        /\ (Samples = ExampleCurve /\ call.reshapeThrustCurve = << >>) =>
               /\ motor.burn_time = <<R(0), R(4)>>
               /\ motor.totalImpulse = R(40)
               /\ motor.maxThrust = R(20)
               /\ motor.maxThrustTime = R(2)
               /\ motor.averageThrust = R(10)

C5_Witness ==
    /\ Constructed
    /\ call.burn_time = << >>
    /\ call.reshapeThrustCurve = << >>
    /\ FromArray
    /\ Samples = ExampleCurve
    /\ motor.totalImpulse = R(40)

AverageTimesDuration ==
    /\ motor.burnDuration = Sub(motor.burn_time[2], motor.burn_time[1])
    /\ FEq(Mul(motor.averageThrust, motor.burnDuration), motor.totalImpulse)

---------------------------------------------------------------------------
(* Claims about reshapeThrustCurve (specification SpecReshape).            *)

Reshaped == pc = "reshaped"
NewWindow == tuple_handler(call.newBurnTime)
NonzeroImpulse == Trapz(call.thrust) # Zero
NonzeroDuration == First(call.thrust)[1] # Last(call.thrust)[1]

\* C6: for a curve of nonzero duration and nonzero impulse and every target,
\* the reshaped curve's first and last sample times are the start and end
\* of the new window (a single value T meaning (0, T)) and its integral over
\* the new window is the new impulse; a curve on [0, 4] reshaped with
\* (8, 80) has domain width 8 and integral 80.
C6_ReshapeHitsTarget ==
    (Reshaped /\ NonzeroDuration /\ NonzeroImpulse) =>
        /\ First(ret[1])[1] = NewWindow[1]
        /\ Last(ret[1])[1] = NewWindow[2]
        /\ Len(call.newBurnTime) = 1 =>
               NewWindow = <<Zero, call.newBurnTime[1]>>
        /\ Trapz(ret[1]) = call.totalImpulse
        /\ Integral(ret[1], NewWindow[1], NewWindow[2]) = call.totalImpulse
        /\ call = ExampleReshape =>
               /\ Sub(Last(ret[1])[1], First(ret[1])[1]) = R(8)
               /\ Trapz(ret[1]) = R(80)

C6_Witness ==
    /\ Reshaped
    /\ call = ExampleReshape
    /\ NonzeroImpulse
    /\ Trapz(ret[1]) = R(80)

\* the time a sample time t is mapped to
MappedTime(t) ==
    Add(Mul(Sub(t, First(call.thrust)[1]),
            Div(Sub(NewWindow[2], NewWindow[1]),
                Sub(Last(call.thrust)[1], First(call.thrust)[1]))),
        NewWindow[1])

ShapePreserved ==
    /\ Len(ret[1]) = Len(call.thrust)
    /\ \A i \in DOMAIN call.thrust : ret[1][i][1] = MappedTime(call.thrust[i][1])
    /\ \A i, j \in DOMAIN call.thrust :
           FEq(Mul(ret[1][i][2], call.thrust[j][2]),
               Mul(ret[1][j][2], call.thrust[i][2]))

\* C7 as stated: reshapeThrustCurve keeps the number and order of the
\* samples, maps every sample time t to (t - t0) * (newDuration /
\* oldDuration) + newStart, and multiplies every thrust by one common
\* factor: y'_i * y_j = y'_j * y_i for all samples i, j.
C7_ShapePreservedAlways == Reshaped => ShapePreserved

\* C7 amended: the same for a curve of nonzero impulse.
C7_ShapePreserved == (Reshaped /\ NonzeroImpulse) => ShapePreserved

C7_Witness ==
    /\ Reshaped
    /\ NonzeroImpulse
    /\ Len(call.thrust) = 3
    /\ call.newBurnTime = <<R(1), R(3)>>
    /\ ret[1][2][1] # call.thrust[2][1]
    /\ ret[1][2][2] # call.thrust[2][2]

---------------------------------------------------------------------------
(* Claims about clipThrust (specification SpecClip).                       *)

Clipped == pc \in {"clipped", "reclipped"}
Requested == tuple_handler(call.new_burn_time)
DomainFirst == First(call.thrust)[1]
DomainLast == Last(call.thrust)[1]
EndPastDomain == Lt(DomainLast, Requested[2])
StartBeforeDomain == Lt(Requested[1], DomainFirst)

\* C8: clipping a curve to its own domain returns its samples; clipping the
\* result again with the same window returns the result; for a window
\* inside the domain the result is the samples strictly inside the window,
\* unchanged and in order, between the two boundary samples.
C8_ClipIdempotent ==
    /\ (Clipped /\ Requested = <<DomainFirst, DomainLast>>) =>
           ret[1] = call.thrust
    /\ pc = "reclipped" => ret[2] = ret[1]
    /\ (Clipped /\ ~EndPastDomain /\ ~StartBeforeDomain) =>
           ret[1] = <<<<Requested[1], Eval(call.thrust, Requested[1])>>>>
                    \o Between(call.thrust, Requested[1], Requested[2])
                    \o <<<<Requested[2], Eval(call.thrust, Requested[2])>>>>

\* C9: clipThrust never raises for a window out of the domain: a bound past
\* the domain is replaced by the domain bound, one warning is emitted (one
\* also when both bounds are replaced) and a clipped curve is returned; for
\* a window inside the domain no warning is emitted.
C9_ClampWarnsOnce ==
    pc = "clipped" =>
        /\ raised = ""
        /\ Len(ret[1]) >= 2
        /\ warned = IF EndPastDomain \/ StartBeforeDomain THEN 1 ELSE 0
        /\ EndPastDomain =>
               \E i \in DOMAIN ret[1] : ret[1][i] = Last(call.thrust)
        /\ StartBeforeDomain =>
               \E i \in DOMAIN ret[1] : ret[1][i] = First(call.thrust)

C9_Witness ==
    /\ pc = "clipped"
    /\ EndPastDomain
    /\ StartBeforeDomain
    /\ warned = 1
    /\ ret[1] = call.thrust

\* C10: for every requested window, also one partially or fully outside
\* the domain, the clipped curve's sample times are strictly increasing and
\* its first and last sample times lie in the input curve's domain.
C10_ClipWithinDomain ==
    pc = "clipped" =>
        /\ \A i \in 1..(Len(ret[1]) - 1) : Lt(ret[1][i][1], ret[1][i + 1][1])
        /\ Le(DomainFirst, First(ret[1])[1])
        /\ Le(Last(ret[1])[1], DomainLast)

---------------------------------------------------------------------------
(* Claims about a Motor in use (specification SpecUse).                    *)

\* C11: after the construction no operation on the Motor changes its burn
\* window or its thrust curve: every step from a constructed Motor leaves
\* burn_time and the thrust samples as they are.
C11_NoMutationPath ==
    [][pc = "constructed" =>
          /\ motor'.burn_time = motor.burn_time
          /\ motor'.thrust = motor.thrust]_vars

\* C12: in every state after the construction, whatever reads and burn_time
\* assignments came before, the value totalImpulse returns is the integral
\* of the stored thrust curve over the stored burn window.
C12_ImpulseNeverStale ==
    (pc = "constructed" /\ ret # << >>) =>
        ret[1] = Integral(motor.thrust, motor.burn_time[1], motor.burn_time[2])

---------------------------------------------------------------------------
(* Claims about the Motor variants (specification SpecVariant).            *)

\* the times at which the curves are compared: the halves from one before
\* the first to one after the last sample time of the inputs
ProbeTimes == {Div(R(k), R(2)) : k \in (0 - 2)..(2 * MaxTime + 2)}

MassDotRead == pc = "constructed" /\ Len(ret) = 2 /\ ret[1] = "massDot"

\* C14: for a concrete motor whose totalImpulse and propellantInitialMass
\* are numbers other than zero, massDot(t) is -thrust(t) / exhaustVelocity
\* at every time t, exhaustVelocity being totalImpulse over
\* propellantInitialMass, and the integral of massDot over the burn window
\* is -propellantInitialMass.
C14_MassDotFromThrust ==
    (MassDotRead /\ IsFinite(motor.totalImpulse) /\ motor.totalImpulse # Zero
                 /\ motor.propellantInitialMass # Zero) =>
        /\ \A t \in ProbeTimes :
               Eval(ret[2], t) =
                   Neg(Div(Eval(motor.thrust, t),
                           Div(motor.totalImpulse, motor.propellantInitialMass)))
        /\ Integral(ret[2], motor.burn_time[1], motor.burn_time[2]) =
               Neg(motor.propellantInitialMass)

C14_Witness ==
    /\ MassDotRead
    /\ call.thrustSource = ArraySource(ExampleCurve)
    /\ call.burn_time = <<R(1), R(MaxTime)>>
    /\ motor.propellantInitialMass = R(MaxThrust)
    /\ Integral(ret[2], R(1), R(MaxTime)) = R(0 - MaxThrust)
    /\ Eval(ret[2], Div(R(3), R(2))) # Zero

\* C15: GenericMotor implements every member the abstract Motor declares:
\* a GenericMotor can be constructed and every one of the members can be
\* invoked on it without a not-implemented failure.
C15_GenericMotorConcrete ==
    (call.cls = "GenericMotor" /\ pc # "new") =>
        /\ pc = "constructed"
        /\ \A member \in AbstractMembers :
               /\ Resolve("GenericMotor", member) = "GenericMotor"
               /\ Member("GenericMotor", motor, member).raised = ""

\* C16: invoking an abstract member on the abstract core itself, or on a
\* variant that does not override it, results in a failure and never in a
\* value, in particular never in a silent empty result.
C16_CoreMemberFails ==
    /\ (abstractmethods(call.cls) # {} /\ pc # "new") =>
           pc = "failed" /\ raised # ""
    /\ (Len(ret) = 3 /\ Resolve(IF ret[1] = "core" THEN "Motor" ELSE call.cls,
                                ret[2]) = "Motor") =>
           raised # ""

\* C17: for every GenericMotor I_11 and I_22 are mass * (3 * chamberRadius^2
\* + chamberHeight^2) / 12, I_33 is mass * chamberRadius^2 / 2, I_12, I_13
\* and I_23 are 0, and inertiaTensor returns I_11, I_22 and I_33.
C17_GenericInertia ==
    (call.cls = "GenericMotor" /\ pc # "new") =>
        /\ pc = "constructed"
        /\ \A member \in {"mass", "I_11", "I_22", "I_33", "inertiaTensor"} :
               /\ Member("GenericMotor", motor, member).raised = ""
               /\ ~IsNone(Member("GenericMotor", motor, member).value)
        /\ LET value(member) == Member("GenericMotor", motor, member).value[1]
           IN  /\ value("I_11") =
                      Div(Mul(value("mass"),
                              Add(Mul(R(3), Mul(call.chamberRadius, call.chamberRadius)),
                                  Mul(call.chamberHeight, call.chamberHeight))),
                          R(12))
               /\ value("I_22") = value("I_11")
               /\ value("I_33") =
                      Div(Mul(value("mass"),
                              Mul(call.chamberRadius, call.chamberRadius)),
                          R(2))
               /\ \A member \in {"I_12", "I_13", "I_23"} : value(member) = Zero
               /\ value("inertiaTensor") =
                      <<value("I_11"), value("I_22"), value("I_33")>>

---------------------------------------------------------------------------
(* Claims about the motor file (specification SpecEng).                    *)

\* line i of the file without its comment
Uncommented(i) == engUncomment(call.file[i])
NonBlank(i) == \E k \in DOMAIN Uncommented(i) : Uncommented(i)[k] \notin Whitespace

\* the description line: the first line that is not blank without its
\* comment (0 if there is none); the data lines: the later such lines
DescriptionIndex ==
    IF \E i \in DOMAIN call.file : NonBlank(i)
    THEN CHOOSE i \in DOMAIN call.file :
            NonBlank(i) /\ \A j \in 1..(i - 1) : ~NonBlank(j)
    ELSE 0
DataIndices ==
    {i \in DOMAIN call.file : DescriptionIndex > 0 /\ i > DescriptionIndex /\ NonBlank(i)}
NumericTokens(i) == findall(Uncommented(i), 1)

\* the pairs of the first two numeric tokens of the data lines from line i on
RECURSIVE FirstTwoFrom(_)
FirstTwoFrom(i) ==
    IF i > Len(call.file) THEN << >>
    ELSE IF i \notin DataIndices THEN FirstTwoFrom(i + 1)
    ELSE <<<<float(NumericTokens(i)[1]), float(NumericTokens(i)[2])>>>>
         \o FirstTwoFrom(i + 1)

\* the comments of the lines from line i on
RECURSIVE CommentsFrom(_)
CommentsFrom(i) ==
    IF i > Len(call.file) THEN << >>
    ELSE IF \A k \in DOMAIN call.file[i] : call.file[i][k] # ";" THEN CommentsFrom(i + 1)
    ELSE <<SubSeq(call.file[i],
                  CHOOSE k \in DOMAIN call.file[i] :
                      /\ call.file[i][k] = ";"
                      /\ \A j \in 1..(k - 1) : call.file[i][j] # ";",
                  Len(call.file[i]))>>
         \o CommentsFrom(i + 1)

\* the tokens of a line between its runs of whitespace
RECURSIVE WhitespaceTokens(_)
WhitespaceTokens(line) ==
    IF line = << >> THEN << >>
    ELSE IF line[1] \in Whitespace THEN WhitespaceTokens(Tail(line))
    ELSE LET n == IF \E k \in DOMAIN line : line[k] \in Whitespace
                  THEN (CHOOSE k \in DOMAIN line :
                           /\ line[k] \in Whitespace
                           /\ \A j \in 1..(k - 1) : line[j] \notin Whitespace) - 1
                  ELSE Len(line)
         IN  <<SubSeq(line, 1, n)>> \o WhitespaceTokens(SubSeq(line, n + 1, Len(line)))

\* importEng was called and has ended
ImportEnded == pc \in {"imported", "failed"} /\ steps[1] = "open"

\* C18: importEng returns the point (0, 0) followed by one (time, thrust)
\* pair for each non-blank, non-comment line after the description line, in
\* file order, the pair being the first two numeric tokens of the line, for
\* lines with two numeric tokens and for lines with more.
C18_FirstTwoTokens ==
    (ImportEnded /\ \A i \in DataIndices : Len(NumericTokens(i)) >= 2) =>
        /\ pc = "imported"
        /\ ret[3] = <<<<Zero, Zero>>>> \o FirstTwoFrom(1)

\* C19: importEng appends everything from a ";" to the end of a line to the
\* comments and removes it before the line is parsed, a line that is only a
\* comment giving no description and no data point; the description is the
\* whitespace-separated token list (no empty token, also with several spaces
\* or tabs between tokens) of the first line that is non-blank without its
\* comment, and no later line changes it.
C19_CommentsAndDescription ==
    pc = "imported" =>
        /\ ret[1] = CommentsFrom(1)
        /\ Len(ret[3]) = 1 + Cardinality(DataIndices)
        /\ ret[2] = IF DescriptionIndex = 0 THEN << >>
                    ELSE WhitespaceTokens(Uncommented(DescriptionIndex))

\* C20: when a data line yields fewer than two numeric tokens importEng
\* fails with a ValueError that reaches the caller, through the Motor
\* construction too; no line is skipped, no value substituted, no partial
\* list of data points returned.
C20_ShortLineFails ==
    (pc # "file" /\ \E i \in DataIndices : Len(NumericTokens(i)) < 2) =>
        /\ pc = "failed"
        /\ raised = "ValueError"
        /\ ret = << >>
        /\ motor = << >>

C20_Witness ==
    /\ pc = "failed"
    /\ call.file = <<DescriptionLine, DataLine, ShortDataLine>>
    /\ steps = <<"csys", "importEng">>
    /\ raised = "ValueError"

---------------------------------------------------------------------------
(* Claims about the motor file, both ways (specification SpecFile).        *)

\* the file handles opened and not closed
HandleOpen ==
    Cardinality({i \in DOMAIN steps : steps[i] = "open"})
        > Cardinality({i \in DOMAIN steps : steps[i] = "close"})

\* exportEng was called and has ended
ExportEnded == {"csys", "open"} \subseteq {steps[i] : i \in DOMAIN steps}

\* C21: importEng and exportEng close the file handle they opened on every
\* way out (normal return, a parse error on a data line, an error raised
\* while a line is formatted or written): no state after the operation has
\* the handle open.
C21_HandleClosed == ~HandleOpen

\* the distance of x and y
Distance(x, y) == IF Lt(x, y) THEN Sub(y, x) ELSE Sub(x, y)

\* x is a number of k decimals, and none of them is nearer to y
RoundedTo(x, y, k) ==
    /\ IsFinite(x)
    /\ Mul(x, R(Pow10(k))).d = 1
    /\ Le(Mul(Distance(x, y), R(2 * Pow10(k))), R(1))

\* the decimals a token is written with
Decimals(token) ==
    IF IndexIn(token, {"."}, 1) = 0 THEN 0
    ELSE Len(token) - IndexIn(token, {"."}, 1)

\* line is a time at 4 decimals, a space and a thrust at 3 decimals, which
\* are time and thrust to those decimals
DataLineOf(line, time, thrust) ==
    LET tokens == split(line, " ")
    IN  /\ Len(tokens) = 2
        /\ Decimals(tokens[1]) = 4
        /\ Decimals(tokens[2]) = 3
        /\ RoundedTo(float(tokens[1]), time, 4)
        /\ RoundedTo(float(tokens[2]), thrust, 3)

\* line is a description line of the geometry and mass fields of motor
DescriptionLineOf(line) ==
    LET tokens == split(line, " ")
    IN  /\ Len(tokens) = 7
        /\ tokens[1] = call.motorName
        /\ RoundedTo(float(tokens[2]), Mul(R(2000), motor.grainOuterRadius), 1)
        /\ RoundedTo(float(tokens[3]),
                     Mul(Mul(R(1000), motor.grainNumber),
                         Add(motor.grainInitialHeight, motor.grainSeparation)), 1)
        /\ tokens[4] = <<"0">>
        /\ float(tokens[5]) = motor.propellantInitialMass
        /\ float(tokens[6]) = motor.propellantInitialMass
        /\ tokens[7] = <<"R", "o", "c", "k", "e", "t", "P", "y">>

\* C22: exportEng, called on any constructed concrete motor, writes one
\* description line built from the geometry and mass fields, then one line
\* for every sample but the first and the last, the time at 4 decimals and
\* the thrust at 3, then one line with the last sample time and thrust 0.
C22_ExportLines ==
    ExportEnded =>
        /\ Len(ret[1]) = Len(motor.thrust)
        /\ DescriptionLineOf(ret[1][1])
        /\ \A i \in 2..(Len(motor.thrust) - 1) :
                DataLineOf(ret[1][i], motor.thrust[i][1], motor.thrust[i][2])
        /\ DataLineOf(ret[1][Len(motor.thrust)],
                      motor.thrust[Len(motor.thrust)][1], Zero)

\* C23: for a motor whose stored curve has n samples, importEng of the file
\* exportEng wrote returns n points: the first is (0, 0), point i for
\* 0 < i < n-1 is sample i with the time rounded to 4 decimals and the thrust
\* to 3, the last is the last sample time (to the 4 decimals of the file) with
\* thrust 0.
C23_RoundTrip ==
    pc = "reimported" =>
        /\ Len(ret[2]) = Len(motor.thrust)
        /\ ret[2][1] = <<Zero, Zero>>
        /\ \A i \in 2..(Len(motor.thrust) - 1) :
                /\ RoundedTo(ret[2][i][1], motor.thrust[i][1], 4)
                /\ RoundedTo(ret[2][i][2], motor.thrust[i][2], 3)
        /\ RoundedTo(ret[2][Len(motor.thrust)][1],
                     motor.thrust[Len(motor.thrust)][1], 4)
        /\ ret[2][Len(motor.thrust)][2] = Zero

\* the curve whose samples need rounding went to the file and back
C23_Witness ==
    /\ pc = "reimported"
    /\ call.thrustSource = ArraySource(RoundingCurve)
    /\ call.burn_time = << >>
    /\ Len(motor.thrust) = 6
    /\ ret[2][2] = <<Norm(3333, 10000), Norm(6667, 1000)>>
    /\ ret[2][3] = <<Norm(5, 8), Norm(62, 1000)>>
    /\ ret[2][4] = <<Norm(6667, 10000), Zero>>
    /\ ret[2][6] = <<R(2), Zero>>

---------------------------------------------------------------------------
(* Further claims about Motor construction (specification Spec).           *)

\* C24: every successfully constructed Motor has a burn window with
\* start < end and a burn duration above zero, for every burn_time the
\* constructor accepts (a single value v read as (0, v), or a pair).
C24_BurnWindowOrdered ==
    Constructed =>
        /\ Lt(motor.burn_time[1], motor.burn_time[2])
        /\ Lt(Zero, motor.burnDuration)

\* a reshape target was given at construction
ReshapeGiven == call.reshapeThrustCurve # << >>
ReshapeTarget == tuple_handler(call.reshapeThrustCurve[1])

\* the stages of the construction that ran, in the order they ran, have
\* the reshape before the clip
ReshapeBeforeClip ==
    \E i, j \in DOMAIN steps :
        i < j /\ steps[i] = "reshapeThrustCurve" /\ steps[j] = "clipThrust"

\* the construction reshaped the whole curve: every sample of an array
\* source has its sample in the Motor's curve
WholeCurveReshaped == FromArray => Len(motor.thrust) = Len(Samples)

ResolvedCurve ==
    InitThrust(MakeFunction(call.thrustSource),
               burn_time_setter(MakeFunction(call.thrustSource), call.burn_time).value,
               << >>)
ResolvedNonzero ==
    /\ Trapz(ResolvedCurve) # Zero
    /\ First(ResolvedCurve)[1] # Last(ResolvedCurve)[1]

---------------------------------------------------------------------------
(* Further claims about clipThrust (specification SpecClip).               *)

\* the clip window after the bounds out of the domain are replaced
ClampedStart == IF StartBeforeDomain THEN DomainFirst ELSE Requested[1]
ClampedEnd == IF EndPastDomain THEN DomainLast ELSE Requested[2]

\* the original samples on a bound of the window, strictly inside it
OnBound == {i \in DOMAIN call.thrust : call.thrust[i][1] \in {ClampedStart, ClampedEnd}}
StrictlyInside ==
    {i \in DOMAIN call.thrust :
        Lt(ClampedStart, call.thrust[i][1]) /\ Lt(call.thrust[i][1], ClampedEnd)}

\* C25: when an original sample's time is a bound of the (possibly clamped)
\* clip window with start < end, the clipped curve has exactly one sample at
\* that time, with the original sample's thrust; the clipped curve has the
\* samples strictly inside the window and two more.
C25_BoundarySampleOnce ==
    (pc = "clipped" /\ Lt(ClampedStart, ClampedEnd)) =>
        /\ \A i \in OnBound :
               /\ Cardinality({j \in DOMAIN ret[1] :
                                  ret[1][j][1] = call.thrust[i][1]}) = 1
               /\ \E j \in DOMAIN ret[1] : ret[1][j] = call.thrust[i]
        /\ Len(ret[1]) = Cardinality(StrictlyInside) + 2

\* the curve of the scenario clipped to (1, 3): samples on both bounds
C25_Witness ==
    /\ pc = "clipped"
    /\ call.thrust = ExampleCurve
    /\ Requested = <<R(1), R(3)>>
    /\ Cardinality(OnBound) = 2
    /\ ret[1] = <<<<R(1), R(10)>>, <<R(2), R(20)>>, <<R(3), R(10)>>>>

---------------------------------------------------------------------------
(* Further claims about the Motor variants (specification SpecVariant).    *)

\* C27: GenericMotor(thrustSource, burn_time=B, ..., nozzleRadius=R, ...)
\* forwards its arguments to the core under their own meaning: the motor's
\* burn window is the one B denotes, its nozzleRadius is R, its thrust curve
\* is built from thrustSource.
C27_GenericMotorForwards ==
    (call.cls = "GenericMotor" /\ pc # "new") =>
        /\ GenericMotorInit(call).raised = ""
        /\ GenericMotorInit(call).obj.burn_time = tuple_handler(call.burn_time)
        /\ GenericMotorInit(call).obj.nozzleRadius = call.nozzleRadius
        /\ GenericMotorInit(call).obj.thrust = ConcreteMotorInit(call).obj.thrust
        /\ pc = "constructed"
        /\ motor.burn_time = tuple_handler(call.burn_time)
        /\ motor.nozzleRadius = call.nozzleRadius

---------------------------------------------------------------------------
(* Claims about the SensitivityModel (specification SpecSensitivity).      *)

\* C28: while no fit has completed (also after set_parameters_nominal,
\* set_target_variables_nominal or a fit rejected by the conformity check),
\* plot and summary raise the 'must be fitted' exception and change no
\* state; the model becomes fitted only by a fit that completes, and once
\* fitted it stays fitted after every later operation, a rejected fit too.
C28_FittedGate ==
    [][/\ (pc' \in {"plot", "summary"} /\ ~model._fitted) =>
              (raised' = "Exception" /\ model' = model)
       /\ (~model._fitted /\ model'._fitted) => (pc' = "fit" /\ raised' = "")
       /\ (~model._fitted /\ raised' # "") => ~model'._fitted
       /\ model._fitted => model'._fitted]_vars

\* plot was refused on a model with nominal values set and no fit completed
C28_Witness ==
    /\ pc = "plot"
    /\ raised = "Exception"
    /\ ~model._fitted
    /\ model._nominal_parameters_passed
    /\ model._nominal_target_passed
    /\ model.number_of_samples = None

\* the data of a fit conform with the names of the model
DataConform(parameters_matrix, target_data) ==
    /\ Len(parameters_matrix[1]) = Len(call.parameters_names)
    /\ target_data.ndim = 1 => Len(call.target_variables_names) = 1
    /\ target_data.ndim = 2 =>
           Len(target_data.data[1]) = Len(call.target_variables_names)
    /\ Len(target_data.data) = Len(parameters_matrix)

\* info holds the mean and the standard deviation of the columns of
\* parameters_matrix
EstimatedFrom(info, parameters_matrix) ==
    \A k \in DOMAIN info :
        LET n == R(Len(parameters_matrix))
            m == info[k].nominal_mean[1]
        IN  /\ Mul(m, n) = Sum([i \in DOMAIN parameters_matrix |->
                                   parameters_matrix[i][k]] \o << >>)
            /\ Mul(power2(info[k].nominal_sd[1]), n)
                  = Sum([i \in DOMAIN parameters_matrix |->
                            Mul(Sub(parameters_matrix[i][k], m),
                                Sub(parameters_matrix[i][k], m))] \o << >>)

\* C29: set_parameters_nominal with a mean or sd array of the wrong length,
\* set_target_variables_nominal with an array of the wrong length and fit
\* with data that do not conform each raise ValueError and leave the whole
\* state (nominal values, flags, number_of_samples, fitted flag) as it was;
\* a fit after a successful set_parameters_nominal leaves the nominal mean
\* and sd as supplied, a fit without it stores the estimates from the data.
C29_ValidationKeepsState ==
    [][/\ (/\ pc' = "set_parameters_nominal"
           /\ \/ Len(ret'[1]) # Len(call.parameters_names)
              \/ Len(ret'[2]) # Len(call.parameters_names)) =>
              (raised' = "ValueError" /\ model' = model)
       /\ (/\ pc' = "set_target_variables_nominal"
           /\ Len(ret'[1]) # Len(call.target_variables_names)) =>
              (raised' = "ValueError" /\ model' = model)
       /\ (pc' = "fit" /\ ~DataConform(ret'[1], ret'[2])) =>
              (raised' = "ValueError" /\ model' = model)
       /\ (pc' = "fit" /\ raised' = "" /\ model._nominal_parameters_passed) =>
              model'.parameters_info = model.parameters_info
       /\ (pc' = "fit" /\ raised' = "" /\ ~model._nominal_parameters_passed) =>
              EstimatedFrom(model'.parameters_info, ret'[1])]_vars

\* a fit was rejected on a model that was fitted with the nominal mean 1 and
\* sd 2 supplied: they are the stored ones
C29_Witness ==
    /\ pc = "fit"
    /\ raised = "ValueError"
    /\ model._fitted
    /\ model._nominal_parameters_passed
    /\ model.number_of_samples = Some(3)
    /\ model.parameters_info = <<[nominal_mean |-> Some(R(1)), nominal_sd |-> Some(R(2))]>>

\* the sensitivities of target variable i
Sensitivities(i) ==
    [k \in DOMAIN model.parameters_names |->
        model.target_variables_info[i].sensitivity[k][1]] \o << >>
InUnitInterval(x) == Le(Zero, x) /\ Le(x, R(1))

\* C30: after every successful fit, for each target variable with positive
\* estimated variance, the sensitivities of the parameters and the LAE are
\* each in [0, 1] and sum to 1, 'var' is the residual variance plus the sum
\* over the parameters of beta_k^2 * sd_k^2, and 'sd' is its square root.
C30_SensitivitiesSumToOne ==
    (pc = "fit" /\ raised = "") =>
        \A i \in DOMAIN model.target_variables_info :
            LET info == model.target_variables_info[i]
            IN  Lt(Zero, info.var[1]) =>
                    /\ \A k \in DOMAIN Sensitivities(i) :
                           InUnitInterval(Sensitivities(i)[k])
                    /\ InUnitInterval(info.LAE[1])
                    /\ Add(Sum(Sensitivities(i)), info.LAE[1]) = R(1)
                    /\ info.var[1]
                          = Add(info.model[1].scale,
                                Sum([k \in DOMAIN model.parameters_names |->
                                        Mul(power2(info.model[1].params[k + 1]),
                                            power2(model.parameters_info[k].nominal_sd[1]))]
                                    \o << >>))
                    /\ power2(info.sd[1]) = info.var[1]

\* a fit of two target variables on two parameters, each parameter and the
\* linear approximation error with a share of the variance of the first
C30_Witness ==
    /\ pc = "fit"
    /\ raised = ""
    /\ model.n_parameters = 2
    /\ model.n_target_variables = 2
    /\ Lt(Zero, model.target_variables_info[1].var[1])
    /\ \A k \in 1..2 : Lt(Zero, Sensitivities(1)[k])
    /\ Lt(Zero, model.target_variables_info[1].LAE[1])

=============================================================================
